---- MODULE Spec2Model ----
(***************************************************************************)
(* Session/state layer of the ZeroTTS bot (src/main.py): the TTL-bounded   *)
(* per-user preference store UserDataStore and the sliding-window          *)
(* RateLimiter, driven by a clock that only moves forward.                 *)
(*                                                                         *)
(* Time is counted in whole seconds.  A call reads the clock once: the     *)
(* two readings a store call makes (in _cleanup and when it stamps         *)
(* _last_access) are microseconds apart and are modelled as one instant.   *)
(* Several calls can be made within the same second.                       *)
(*                                                                         *)
(* Spec        the store alone, small ttl, every second visited            *)
(* LimiterSpec the limiter alone, small limit and window                   *)
(* ProdSpec    the limiter as constructed by the bot (10 per 60 seconds)   *)
(* CacheSpec   the two timed caches (voice catalog, remaining quota) with  *)
(*             their real lifetimes, on the instants around them           *)
(* IndexSpec   the catalog indexer of send_welcome applied to catalogs     *)
(* BotSpec     the module from import on: the handlers of /start, of the   *)
(*             callback queries and of text messages, one event at a time  *)
(* RaceSpec    is_allowed run by two threads, statement by statement       *)
(* The h-variables are history variables: they record what has happened    *)
(* and are never read by the modelled code.                                *)
(***************************************************************************)
EXTENDS Integers, Sequences, FiniteSets, TLC

\* ------------------------------------------------------------------ bounds
\* Largest clock value of the store specification.
StoreMaxClock == 5
\* ttl_seconds the model's UserDataStore is constructed with.
SmallTTL == 2
\* Largest clock value of the limiter specification.
LimMaxClock == 5
\* max_requests / window_seconds the model's RateLimiter is constructed with.
SmallMaxRequests == 2
SmallWindow == 3
\* Largest clock value and grid of the production-sized limiter run.
ProdMaxClock == 61
ProdGrid == 30
\* Largest clock value of the cache specification.
CacheMaxClock == 3901
\* Largest character_limit / character_count the quota provider answers.
QuotaMaxChars == 1
\* Longest catalog the indexer is applied to.
MaxCatalogLen == 4
\* Largest clock value of the bot specification.
BotMaxClock == 3600
\* Largest clock value of the specification of interleaved is_allowed calls.
RaceMaxClock == 2
\* prepare_for_tts: the longest content the rewriter answers with
PrepMaxLen == 3
\* The session specification: ttl of the store, limit and window of the
\* limiter, largest clock value.  The window is longer than the ttl, so
\* that a user can still be rejected when the ttl has passed.
SessTTL == 1
SessMaxRequests == 1
SessWindow == 3
SessMaxClock == 2

\* --------------------------------------------------------- program values
Users == {"u1", "u2"}
Keys == {"voice_id", "resp_format"}
\* Values the handlers store (a voice id, BotConfig.FORMAT_OGG/FORMAT_BOTH).
Values == {"ogg", "both"}
\* The default a handler passes to get: None, the parameter's own default.
Defaults == {"None"}
\* The key of the production-sized limiter run.
ProdUsers == {"u1"}
\* rate_limiter = RateLimiter(max_requests=10, window_seconds=60)
ProdMaxRequests == 10
ProdWindow == 60
\* No user has called yet / the key was never set.
Never == -1
Unset == "unset"
\* USER_DATA_TTL_SECONDS, the ttl the bot constructs its store with.
USER_DATA_TTL_SECONDS == 86400
\* config.MAX_TTS_CHARS, its default.
MAX_TTS_CHARS == 1200
\* VOICE_CACHE_TTL_SECONDS and _QUOTA_CACHE_TTL of main.py.
VOICE_CACHE_TTL_SECONDS == 3600
QUOTA_CACHE_TTL == 300
\* r.status_code of a successful / failed quota request.
HTTP_OK == 200
HTTP_ERROR == 500

\* Python's None and a present value of an Optional.
NONE == <<>>
Some(x) == <<x>>

\* Strings are sequences of characters.  The characters, in code point
\* order; the cy: characters are the Cyrillic letters of the label of
\* the Russian language.
Uppercase == <<"A", "B", "E", "F", "G", "H", "I", "L", "M", "N", "O", "R",
               "S", "T", "U", "V", "Z">>
Lowercase == <<"a", "b", "e", "f", "g", "h", "i", "l", "m", "n", "o", "r",
               "s", "t", "u", "v", "z">>
CyrUpper == <<"cy:I", "cy:J", "cy:K", "cy:R", "cy:S", "cy:U">>
CyrLower == <<"cy:i", "cy:j", "cy:k", "cy:r", "cy:s", "cy:u">>
Chars == Uppercase \o Lowercase \o CyrUpper \o CyrLower
s_anna == <<"a", "n", "n", "a">>
s_Zoe == <<"Z", "o", "e">>
s_Ben == <<"B", "e", "n">>
s_Ivan == <<"I", "v", "a", "n">>
s_Eve == <<"E", "v", "e">>
s_Ghost == <<"G", "h", "o", "s", "t">>
s_Lev == <<"L", "e", "v">>
s_ru == <<"r", "u">>
s_RU == <<"R", "U">>
s_en == <<"e", "n">>
s_multi == <<"m", "u", "l", "t", "i">>
s_Multilingual ==
    <<"M", "u", "l", "t", "i", "l", "i", "n", "g", "u", "a", "l">>
s_russian == <<"r", "u", "s", "s", "i", "a", "n">>
s_russkij ==
    <<"cy:r", "cy:u", "cy:s", "cy:s", "cy:k", "cy:i", "cy:j">>
s_Russkij ==
    <<"cy:R", "cy:u", "cy:s", "cy:s", "cy:k", "cy:i", "cy:j">>
s_female == <<"f", "e", "m", "a", "l", "e">>
s_Female == <<"F", "e", "m", "a", "l", "e">>
s_male == <<"m", "a", "l", "e">>
s_neutral == <<"n", "e", "u", "t", "r", "a", "l">>
s_empty == <<>>

\* A voice of the provider's response: voice_id, name, labels["language"],
\* labels["gender"] and the gender attribute (NONE where absent).
Voice(vid, name, lang, lgender, gender) ==
    [voice_id |-> vid, name |-> name, language |-> lang,
     labels_gender |-> lgender, gender |-> gender]

\* The voices catalogs are made of.  The first three are the records of
\* the indexer example; the last voice has no identifier and no language.
VoicePool ==
    { Voice(Some("1"), s_anna, Some(s_ru), Some(s_female), NONE),
      Voice(Some("2"), s_Ivan, Some(s_multi), Some(s_male), NONE),
      Voice(Some("3"), s_Ben, Some(s_en), Some(s_male), NONE),
      Voice(Some("4"), s_Zoe, Some(s_RU), Some(s_Female), NONE),
      Voice(Some("5"), s_Eve, Some(s_Multilingual), NONE, Some(s_female)),
      Voice(Some("6"), s_Lev, Some(s_Russkij), Some(s_empty), Some(s_neutral)),
      Voice(NONE, s_Ghost, NONE, Some(s_female), NONE) }

\* What the catalog provider answers in the cache and bot specifications.
CatalogA ==
    << Voice(Some("1"), s_anna, Some(s_ru), Some(s_female), NONE),
       Voice(Some("2"), s_Ivan, Some(s_multi), Some(s_male), NONE),
       Voice(Some("3"), s_Ben, Some(s_en), Some(s_male), NONE) >>
CatalogB ==
    << Voice(Some("4"), s_Zoe, Some(s_RU), Some(s_Female), NONE),
       Voice(Some("1"), s_anna, Some(s_ru), Some(s_female), NONE) >>
ProviderCatalogs == {CatalogA, CatalogB}
\* What a provider call raises: elevenlabs ApiError, httpx.HTTPError.
ProviderErrors == {"ApiError", "HTTPError"}
\* Which of the credentials of config.py the environment sets.
Configs == [bot_token : BOOLEAN, elevenlabs_api_key : BOOLEAN]
AllSet == [bot_token |-> TRUE, elevenlabs_api_key |-> TRUE]

\* The events of the bot specification: one user, the voices, modes and
\* formats a callback query can carry ("wav" is no format of BotConfig).
BotUsers == {"u1"}
BotVoiceIds == {"1"}
BotModes == {"announcer"}
BotFormats == {"ogg", "mp3", "wav"}
BotCategories == {"male", "female"}
\* The threads that run handlers at the same time.
Threads == {"t1", "t2"}

VARIABLES
    clock,          \* time.time() / datetime.now(), in seconds
    ttl,            \* UserDataStore.ttl
    data,           \* UserDataStore._data: user -> (key -> value)
    lastAccess,     \* UserDataStore._last_access: user -> time
    ret,            \* what the last call returned
    last,           \* the last call: operation and arguments
    hLastOp,        \* history: time of each user's latest store call
    hCont,          \* history: every gap between the user's store calls <= ttl
    hLatest,        \* history: the value most recently set for (user, key)
    max_requests,   \* RateLimiter.max_requests
    window,         \* RateLimiter.window, in seconds
    requests,       \* RateLimiter._requests: user -> list of timestamps
    hAdmitted,      \* history: the times of all admitted calls of a user
    hLastCheck,     \* history: time of each user's latest is_allowed call
    hRejected,      \* history: the users a call of whom has been rejected
    config,         \* config.py: which credentials the environment sets
    client,         \* voice.py _client: the provider client singleton
    voicesCache,    \* _voices_cache: None or (cache_time, voices_response)
    quotaCache,     \* _quota_cache: None or (cache_time, remaining)
    hUnknownAt,     \* history: time of the latest "unknown" quota answer
    category_to_voices, \* the buckets "male" and "female": lists of (name, id)
    voice_id_to_name,   \* reverse map id -> name
    voice_id_to_lang,   \* reverse map id -> language label
    phase,              \* "import", then "polling" or "failed"
    threads             \* is_allowed calls under way: thread -> position

storeVars == <<ttl, data, lastAccess, hLastOp, hCont, hLatest>>
limiterVars ==
    <<max_requests, window, requests, hAdmitted, hLastCheck, hRejected>>
cacheVars == <<config, client, voicesCache, quotaCache, hUnknownAt>>
indexVars == <<category_to_voices, voice_id_to_name, voice_id_to_lang>>
botVars == <<phase>>
appVars == <<cacheVars, indexVars, botVars>>
vars == <<clock, ret, last, storeVars, limiterVars, appVars, threads>>

\* ----------------------------------------------------------------- helpers
EmptyFn == [x \in {} |-> x]
Restrict(f, S) == [x \in S |-> f[x]]
Put(f, x, y) == [z \in DOMAIN f \cup {x} |-> IF z = x THEN y ELSE f[z]]

NoCall == [op |-> "none", user |-> "-", key |-> "-", arg |-> "-", prev |-> Never]

\* ----------------------------------------------------------- UserDataStore
\* A cleanup that keeps a user one second longer than ttl.
ExpiredLate(la, now, t) == {uid \in DOMAIN la : now - la[uid] > t + 1}

\* A cleanup that already evicts a user idle for exactly ttl seconds.
ExpiredEarly(la, now, t) == {uid \in DOMAIN la : now - la[uid] >= t}

\* _cleanup: the users whose last access is more than ttl seconds ago.
Expired(la, now, t) == {uid \in DOMAIN la : now - la[uid] > t}

\* A cleanup that drops the access time of an expired user but keeps the record.
CleanupKeepsData(d, la, now, t) ==
    [data |-> d,
     access |-> Restrict(la, DOMAIN la \ Expired(la, now, t))]

\* _cleanup: pop every expired user from _data and from _last_access.
Cleanup(d, la, now, t) ==
    [data |-> Restrict(d, DOMAIN d \ Expired(la, now, t)),
     access |-> Restrict(la, DOMAIN la \ Expired(la, now, t))]

\* A get that creates the caller's record when there is none.
StoreGetCreatesRecord(d, la, now, t, u, k, dflt) ==
    LET c == Cleanup(d, la, now, t)
    IN  [data |-> IF u \in DOMAIN c.data THEN c.data
                  ELSE Put(c.data, u, EmptyFn),
         access |-> Put(c.access, u, now),
         ret |-> IF u \in DOMAIN c.data /\ k \in DOMAIN c.data[u]
                 THEN c.data[u][k] ELSE dflt]

\* get: cleanup, stamp the caller, return the stored value or the default.
StoreGet(d, la, now, t, u, k, dflt) ==
    LET c == Cleanup(d, la, now, t)
    IN  [data |-> c.data,
         access |-> Put(c.access, u, now),
         ret |-> IF u \in DOMAIN c.data /\ k \in DOMAIN c.data[u]
                 THEN c.data[u][k] ELSE dflt]

\* A set whose assignment sits in an else branch: the first call for a user
\* only creates the empty record.
StoreSetElse(d, la, now, t, u, k, v) ==
    LET c == Cleanup(d, la, now, t)
    IN  [data |-> IF u \notin DOMAIN c.data
                  THEN Put(c.data, u, EmptyFn)
                  ELSE Put(c.data, u, Put(c.data[u], k, v)),
         access |-> Put(c.access, u, now)]

\* A set that replaces the caller's record by one holding only the new key.
StoreSetReplacesRecord(d, la, now, t, u, k, v) ==
    LET c == Cleanup(d, la, now, t)
    IN  [data |-> Put(c.data, u, Put(EmptyFn, k, v)),
         access |-> Put(c.access, u, now)]

\* set: cleanup, create the record if absent, store the value, stamp the caller.
StoreSet(d, la, now, t, u, k, v) ==
    LET c == Cleanup(d, la, now, t)
        d2 == IF u \notin DOMAIN c.data THEN Put(c.data, u, EmptyFn) ELSE c.data
    IN  [data |-> Put(d2, u, Put(d2[u], k, v)),
         access |-> Put(c.access, u, now)]

\* The caller's previous store call is more than ttl seconds ago.
LongIdle(u) == hLastOp[u] # Never /\ clock - hLastOp[u] > ttl

Touch(u) ==
    /\ hLastOp' = [hLastOp EXCEPT ![u] = clock]
    /\ hCont' = [hCont EXCEPT ![u] = hCont[u] /\ ~LongIdle(u)]

Get(u, k, dflt) ==
    LET r == StoreGet(data, lastAccess, clock, ttl, u, k, dflt)
    IN  /\ data' = r.data
        /\ lastAccess' = r.access
        /\ ret' = r.ret
        /\ last' = [op |-> "get", user |-> u, key |-> k, arg |-> dflt,
                    prev |-> hLastOp[u]]
        /\ Touch(u)
        /\ UNCHANGED <<clock, ttl, hLatest, limiterVars, appVars, threads>>

Set(u, k, v) ==
    LET r == StoreSet(data, lastAccess, clock, ttl, u, k, v)
    IN  /\ data' = r.data
        /\ lastAccess' = r.access
        /\ ret' = "None"
        /\ last' = [op |-> "set", user |-> u, key |-> k, arg |-> v,
                    prev |-> hLastOp[u]]
        /\ Touch(u)
        /\ hLatest' = [hLatest EXCEPT ![u][k] = v]
        /\ UNCHANGED <<clock, ttl, limiterVars, appVars, threads>>

\* The clock moves on by one second; the call that returned is in the past.
StoreTick ==
    /\ clock < StoreMaxClock
    /\ clock' = clock + 1
    /\ ret' = "None"
    /\ last' = NoCall
    /\ UNCHANGED <<storeVars, limiterVars, appVars, threads>>

\* ------------------------------------------------------------- RateLimiter
\* A pruning that forgets to drop anything.
PruneNothing(reqs, now, w) == reqs

\* A pruning that keeps the timestamp that is exactly w seconds old.
PruneClosed(reqs, now, w) == SelectSeq(reqs, LAMBDA t : t >= now - w)

\* is_allowed, pruning: keep the timestamps later than cutoff = now - window.
Prune(reqs, now, w) == SelectSeq(reqs, LAMBDA t : t > now - w)

\* A limit test that lets one request too many through.
OverLimitLate(kept, m) == Len(kept) > m

\* is_allowed, limit test: len(self._requests[user_id]) >= self.max_requests.
OverLimit(kept, m) == Len(kept) >= m

\* An is_allowed that records the request before it tests the limit.
LimiterCheckRecordsAll(reqs, now, w, m) ==
    LET kept == Prune(reqs, now, w)
    IN  [reqs |-> Append(kept, now), ok |-> ~OverLimit(kept, m)]

\* is_allowed on the caller's list: prune, reject at the limit without
\* recording, otherwise append now and admit.
LimiterCheck(reqs, now, w, m) ==
    LET kept == Prune(reqs, now, w)
    IN  IF OverLimit(kept, m)
        THEN [reqs |-> kept, ok |-> FALSE]
        ELSE [reqs |-> Append(kept, now), ok |-> TRUE]

\* self._requests[user_id] of the defaultdict: an empty list if absent.
RequestsOf(rq, u) == IF u \in DOMAIN rq THEN rq[u] ELSE <<>>

IsAllowed(u) ==
    LET r == LimiterCheck(RequestsOf(requests, u), clock, window, max_requests)
    IN  /\ requests' = Put(requests, u, r.reqs)
        /\ ret' = r.ok
        /\ last' = [op |-> "is_allowed", user |-> u, key |-> "-", arg |-> "-",
                    prev |-> hLastCheck[u]]
        /\ hAdmitted' = IF r.ok
                        THEN [hAdmitted EXCEPT ![u] = Append(@, clock)]
                        ELSE hAdmitted
        /\ hLastCheck' = [hLastCheck EXCEPT ![u] = clock]
        /\ hRejected' = IF r.ok THEN hRejected ELSE hRejected \cup {u}
        /\ UNCHANGED <<clock, max_requests, window, storeVars, appVars, threads>>

LimiterTick ==
    /\ clock < LimMaxClock
    /\ clock' = clock + 1
    /\ ret' = "None"
    /\ last' = NoCall
    /\ UNCHANGED <<storeVars, limiterVars, appVars, threads>>

\* The instants of the production-sized run: around every multiple of
\* ProdGrid seconds, which puts calls 59, 60 and 61 seconds after a call.
OnGrid(t) == (t % ProdGrid) \in {0, 1, ProdGrid - 1}

ProdTick ==
    /\ \E t \in (clock + 1)..ProdMaxClock : OnGrid(t) /\ clock' = t
    /\ ret' = "None"
    /\ last' = NoCall
    /\ UNCHANGED <<storeVars, limiterVars, appVars, threads>>

\* ------------------------------------------------------------ timed caches
\* An entry that is still served when it is exactly t seconds old.
FreshClosed(entry, now, t) == entry # NONE /\ now - entry[1].at <= t

\* The hit test of both caches: an entry exists and now - cache_time < TTL.
Fresh(entry, now, t) == entry # NONE /\ now - entry[1].at < t

\* voice.py _get_client: the singleton is created on the first call, and
\* that call raises RuntimeError when ELEVENLABS_API_KEY is not set.
GetClient(cl, cfg) ==
    IF cl # NONE THEN [raised |-> FALSE, value |-> "-", client |-> cl]
    ELSE IF ~cfg.elevenlabs_api_key
         THEN [raised |-> TRUE, value |-> "RuntimeError", client |-> cl]
         ELSE [raised |-> FALSE, value |-> "-", client |-> Some("ElevenLabs")]

\* voice.py get_all_voices: client.voices.get_all() answers resp, a catalog
\* or an error raised.
GetAllVoices(cl, cfg, resp) ==
    LET g == GetClient(cl, cfg)
    IN  IF g.raised
        THEN [raised |-> TRUE, value |-> g.value, client |-> g.client]
        ELSE [raised |-> resp.raised, value |-> resp.value, client |-> g.client]

\* A catalog cache that answers a failed refresh with the entry it has.
GetVoicesCachedServesStale(entry, now, cl, cfg, resp) ==
    IF Fresh(entry, now, VOICE_CACHE_TTL_SECONDS)
    THEN [cache |-> entry, raised |-> FALSE, value |-> entry[1].value,
          client |-> cl, fetches |-> 0]
    ELSE LET r == GetAllVoices(cl, cfg, resp)
         IN  IF r.raised /\ entry # NONE
             THEN [cache |-> entry, raised |-> FALSE,
                   value |-> entry[1].value, client |-> r.client,
                   fetches |-> 1]
             ELSE IF r.raised
             THEN [cache |-> entry, raised |-> TRUE, value |-> r.value,
                   client |-> r.client, fetches |-> 1]
             ELSE [cache |-> Some([at |-> now, value |-> r.value]),
                   raised |-> FALSE, value |-> r.value,
                   client |-> r.client, fetches |-> 1]

\* get_voices_cached: serve the fresh entry; otherwise call get_all_voices
\* once, let what it raises escape with the entry untouched, and on success
\* replace the entry by (now, voices_response).
GetVoicesCached(entry, now, cl, cfg, resp) ==
    IF Fresh(entry, now, VOICE_CACHE_TTL_SECONDS)
    THEN [cache |-> entry, raised |-> FALSE, value |-> entry[1].value,
          client |-> cl, fetches |-> 0]
    ELSE LET r == GetAllVoices(cl, cfg, resp)
         IN  IF r.raised
             THEN [cache |-> entry, raised |-> TRUE, value |-> r.value,
                   client |-> r.client, fetches |-> 1]
             ELSE [cache |-> Some([at |-> now, value |-> r.value]),
                   raised |-> FALSE, value |-> r.value,
                   client |-> r.client, fetches |-> 1]

Max(a, b) == IF a >= b THEN a ELSE b

\* What the quota request answers: an error raised by the HTTP client, or a
\* response with a status code and the subscription's character_limit and
\* character_count, each an integer or absent.
QuotaField == {NONE} \cup {Some(n) : n \in 0..QuotaMaxChars}
QuotaResponses ==
    [raised : {TRUE}, value : {"HTTPError"}] \cup
    [raised : {FALSE}, status : {HTTP_ERROR}, limit : {NONE}, used : {NONE}]
    \cup [raised : {FALSE}, status : {HTTP_OK},
          limit : QuotaField, used : QuotaField]

\* How a quota answer came about.
QuotaKind(cfg, resp) ==
    IF ~cfg.elevenlabs_api_key THEN "disabled"
    ELSE IF resp.raised THEN "raised"
    ELSE IF resp.status # HTTP_OK THEN "status"
    ELSE IF resp.limit # NONE /\ resp.used # NONE THEN "integer"
    ELSE "no_fields"

\* A quota lookup that forgets its entry when the request fails.
CheckQuotaDropsOnFailure(entry, now, cfg, resp) ==
    IF Fresh(entry, now, QUOTA_CACHE_TTL)
    THEN [cache |-> entry, value |-> entry[1].value, fetches |-> 0,
          kind |-> "cached"]
    ELSE LET k == QuotaKind(cfg, resp)
         IN  IF k = "integer"
             THEN LET remaining == Max(0, resp.limit[1] - resp.used[1])
                  IN  [cache |-> Some([at |-> now, value |-> Some(remaining)]),
                       value |-> Some(remaining), fetches |-> 1, kind |-> k]
             ELSE [cache |-> IF k \in {"raised", "status"} THEN NONE ELSE entry,
                   value |-> NONE,
                   fetches |-> IF k = "disabled" THEN 0 ELSE 1, kind |-> k]

\* check_quota_remaining_chars: serve the fresh entry; without an API key
\* answer None; otherwise send one request and answer None when it raises,
\* when the status is not 200 and when a field is no integer; only an
\* integer answer max(0, limit - used) is written to _quota_cache.
CheckQuota(entry, now, cfg, resp) ==
    IF Fresh(entry, now, QUOTA_CACHE_TTL)
    THEN [cache |-> entry, value |-> entry[1].value, fetches |-> 0,
          kind |-> "cached"]
    ELSE LET k == QuotaKind(cfg, resp)
         IN  IF k = "integer"
             THEN LET remaining == Max(0, resp.limit[1] - resp.used[1])
                  IN  [cache |-> Some([at |-> now, value |-> Some(remaining)]),
                       value |-> Some(remaining), fetches |-> 1, kind |-> k]
             ELSE [cache |-> entry, value |-> NONE,
                   fetches |-> IF k = "disabled" THEN 0 ELSE 1, kind |-> k]

VoiceResponses ==
    [raised : {FALSE}, value : ProviderCatalogs] \cup
    [raised : {TRUE}, value : ProviderErrors]

\* A call of get_voices_cached.  The record of the call keeps the entry
\* found (pre), what the provider answered and how often it was asked.
CallGetVoicesCached(resp) ==
    LET r == GetVoicesCached(voicesCache, clock, client, config, resp)
    IN  /\ voicesCache' = r.cache
        /\ client' = r.client
        /\ ret' = [raised |-> r.raised, value |-> r.value]
        /\ last' = [op |-> "get_voices_cached", pre |-> voicesCache,
                    resp |-> resp, fetches |-> r.fetches]
        /\ UNCHANGED <<clock, config, quotaCache, hUnknownAt, storeVars,
                       limiterVars, indexVars, botVars, threads>>

\* A call of check_quota_remaining_chars.
CallCheckQuota(resp) ==
    LET r == CheckQuota(quotaCache, clock, config, resp)
    IN  /\ quotaCache' = r.cache
        /\ ret' = [raised |-> FALSE, value |-> r.value]
        /\ last' = [op |-> "check_quota", pre |-> quotaCache, kind |-> r.kind,
                    fetches |-> r.fetches, prevUnknown |-> hUnknownAt]
        /\ hUnknownAt' = IF r.kind \in {"no_fields", "disabled"}
                         THEN clock ELSE hUnknownAt
        /\ UNCHANGED <<clock, config, client, voicesCache, storeVars,
                       limiterVars, indexVars, botVars, threads>>

\* The instants of the cache specification: around 0, around each lifetime
\* and around their sum, so that an entry of either cache is asked for one
\* second before, at, and one second after its expiry.
CacheInstants ==
    { b + d : b \in {0, QUOTA_CACHE_TTL, VOICE_CACHE_TTL_SECONDS,
                     VOICE_CACHE_TTL_SECONDS + QUOTA_CACHE_TTL},
              d \in {-1, 0, 1} } \cap (0..CacheMaxClock)

CacheTick ==
    /\ \E t \in CacheInstants : t > clock /\ clock' = t
    /\ ret' = "None"
    /\ last' = NoCall
    /\ UNCHANGED <<storeVars, limiterVars, appVars, threads>>

\* The module-level state after import: no client, both caches None.
CacheInit(cfg) ==
    /\ config = cfg
    /\ client = NONE
    /\ voicesCache = NONE
    /\ quotaCache = NONE
    /\ hUnknownAt = Never

\* --------------------------------------------------------- catalog indexer
\* str.lower on one character and on a string.
LowerTable ==
    [c \in {Chars[i] : i \in 1..Len(Chars)} |->
        IF \E i \in 1..Len(Uppercase) : Uppercase[i] = c
        THEN Lowercase[CHOOSE i \in 1..Len(Uppercase) : Uppercase[i] = c]
        ELSE IF \E i \in 1..Len(CyrUpper) : CyrUpper[i] = c
        THEN CyrLower[CHOOSE i \in 1..Len(CyrUpper) : CyrUpper[i] = c]
        ELSE c]
LowerChar(c) == LowerTable[c]
Lower(str) == [i \in 1..Len(str) |-> LowerChar(str[i])]

\* sub in str
Contains(sub, str) ==
    \E i \in 0..(Len(str) - Len(sub)) : SubSeq(str, i + 1, i + Len(sub)) = sub

\* The code point order of characters and the order of strings it induces.
OrdTable ==
    [c \in {Chars[i] : i \in 1..Len(Chars)} |->
        CHOOSE i \in 1..Len(Chars) : Chars[i] = c]
Ord(c) == OrdTable[c]
RECURSIVE StrLess(_, _)
StrLess(a, b) ==
    IF b = <<>> THEN FALSE
    ELSE IF a = <<>> THEN TRUE
    ELSE IF Ord(Head(a)) # Ord(Head(b)) THEN Ord(Head(a)) < Ord(Head(b))
    ELSE StrLess(Tail(a), Tail(b))

\* gender = labels.get("gender") or getattr(v, "gender", None), then
\* (gender or ""): an absent or empty label gives way to the attribute.
GenderOf(v) ==
    IF v.labels_gender # NONE /\ v.labels_gender[1] # s_empty
    THEN v.labels_gender[1]
    ELSE IF v.gender # NONE THEN v.gender[1] ELSE s_empty

\* language_label = labels.get("language", "")
LanguageOf(v) == IF v.language # NONE THEN v.language[1] ELSE s_empty

\* if not vid: continue
HasId(v) == v.voice_id # NONE /\ v.voice_id[1] # ""

\* A bucket test that asks for "male" first; "male" is part of "female".
BucketOfMaleFirst(gender) ==
    IF Contains(s_male, Lower(gender)) THEN "male" ELSE "female"

\* The bucket of a gender label: "female" in g, else male.
BucketOf(gender) ==
    IF Contains(s_female, Lower(gender)) THEN "female" ELSE "male"

\* lang_priority of send_welcome.
lang_priority(lang) ==
    LET l == Lower(lang)
    IN  IF l \in {s_ru, s_russian, s_russkij} THEN 0
        ELSE IF Contains(s_multi, l) THEN 1
        ELSE 2

\* A sort key that compares the names as they are written.
sort_key_cased(item) == <<lang_priority(item.lang), item.name>>

\* sort_key of send_welcome: (lang_priority(lang), name.lower()).
sort_key(item) == <<lang_priority(item.lang), Lower(item.name)>>

\* Comparison of two keys, as Python compares (int, str) tuples.
KeyLess(k1, k2) == k1[1] < k2[1] \/ (k1[1] = k2[1] /\ StrLess(k1[2], k2[2]))

\* list.sort(key=sort_key): stable, an item stays behind the items before
\* it whose key is not greater.
RECURSIVE InsertByKey(_, _)
InsertByKey(sorted, x) ==
    IF sorted = <<>> THEN <<x>>
    ELSE IF KeyLess(sort_key(x), sort_key(Head(sorted)))
    THEN <<x>> \o sorted
    ELSE <<Head(sorted)>> \o InsertByKey(Tail(sorted), x)
RECURSIVE SortByKey(_)
SortByKey(items) ==
    IF items = <<>> THEN <<>>
    ELSE InsertByKey(SortByKey(SubSeq(items, 1, Len(items) - 1)),
                     items[Len(items)])

\* The (name, vid, language_label) items of the voices of one bucket, in
\* the order of the catalog; voices without an identifier are skipped.
ItemOf(v) == [name |-> v.name, vid |-> v.voice_id[1], lang |-> LanguageOf(v)]
TempOf(voice_list, bucket) ==
    LET keep == SelectSeq(voice_list,
                    LAMBDA v : HasId(v) /\ BucketOf(GenderOf(v)) = bucket)
    IN  [i \in 1..Len(keep) |-> ItemOf(keep[i])]

\* The loop's writes to a reverse map: map[vid] = name or language of v for every
\* identified voice in turn, so the last voice with an id decides.
NameOf(v) == v.name
FieldOf(v, field) == IF field = "name" THEN NameOf(v) ELSE LanguageOf(v)
WriteAll(map, voice_list, field) ==
    LET at(x) == {i \in 1..Len(voice_list) :
                    HasId(voice_list[i]) /\ voice_list[i].voice_id[1] = x}
        ids == {voice_list[i].voice_id[1] :
                    i \in {j \in 1..Len(voice_list) : HasId(voice_list[j])}}
        lastAt(x) == CHOOSE i \in at(x) : \A j \in at(x) : j <= i
    IN  [x \in DOMAIN map \cup ids |->
            IF x \in ids THEN FieldOf(voice_list[lastAt(x)], field) ELSE map[x]]

Pairs(items) == [i \in 1..Len(items) |-> <<items[i].name, items[i].vid>>]

\* The indexing part of send_welcome: both buckets are built anew from
\* voice_list, sorted, and reduced to (name, vid); the reverse maps are
\* written for every identified voice and keep what they held.
IndexCatalog(voice_list, names, langs) ==
    [male |-> Pairs(SortByKey(TempOf(voice_list, "male"))),
     female |-> Pairs(SortByKey(TempOf(voice_list, "female"))),
     names |-> WriteAll(names, voice_list, "name"),
     langs |-> WriteAll(langs, voice_list, "lang")]

\* The catalogs the indexer is applied to.
RECURSIVE SeqsUpTo(_, _)
SeqsUpTo(S, n) ==
    IF n = 0 THEN {<<>>}
    ELSE LET shorter == SeqsUpTo(S, n - 1)
         IN  shorter \cup {Append(q, x) : q \in shorter, x \in S}
AllCatalogs == SeqsUpTo(VoicePool, MaxCatalogLen)

\* The indexer applied to the catalog the specification started with.
BuildIndex ==
    /\ last.op = "catalog"
    /\ \E r \in {IndexCatalog(last.voices, voice_id_to_name,
                                voice_id_to_lang)} :
           /\ category_to_voices' = [male |-> r.male, female |-> r.female]
           /\ voice_id_to_name' = r.names
           /\ voice_id_to_lang' = r.langs
    /\ last' = [op |-> "index", voices |-> last.voices]
    /\ UNCHANGED <<clock, ret, storeVars, limiterVars, cacheVars, botVars,
                   threads>>

\* category_to_voices = {"male": [], "female": []}, both reverse maps {}.
IndexInit ==
    /\ category_to_voices = [male |-> <<>>, female |-> <<>>]
    /\ voice_id_to_name = EmptyFn
    /\ voice_id_to_lang = EmptyFn

\* --------------------------------------------------------------- handlers
\* The record of a handled event: whether rate_limiter.is_allowed was
\* called and what it answered, whether user_data_store was called, whether
\* a cache function was called, and whether a missing-credential error was
\* raised while the event was handled.
Handled(op, u, checked, admitted, store, cache, cfgerr) ==
    [op |-> op, user |-> u, checked |-> checked, admitted |-> admitted,
     store |-> store, cache |-> cache, config_error |-> cfgerr]

\* An import that does not look at the bot token.
ImportUnchecked ==
    /\ phase = "import"
    /\ phase' = "polling"
    /\ ret' = "None"
    /\ last' = [op |-> "import"]
    /\ UNCHANGED <<clock, storeVars, limiterVars, cacheVars, indexVars,
                   threads>>

\* Import of main.py up to the start of polling: without TELEGRAM_BOT_TOKEN
\* the module raises RuntimeError and no handler ever runs; the provider
\* key is not looked at.
Import ==
    /\ phase = "import"
    /\ phase' = IF config.bot_token THEN "polling" ELSE "failed"
    /\ ret' = IF config.bot_token THEN "None"
              ELSE [raised |-> TRUE, value |-> "RuntimeError"]
    /\ last' = [op |-> "import"]
    /\ UNCHANGED <<clock, storeVars, limiterVars, cacheVars, indexVars,
                   threads>>

\* send_main_menu: the three store reads of the menu text (voice_id, then
\* mode_label_for and format_label_for).
MenuGets(d, la, now, t, u) ==
    LET g1 == StoreGet(d, la, now, t, u, "voice_id", "None")
        g2 == StoreGet(g1.data, g1.access, now, t, u, "ssml_mode", "off")
        g3 == StoreGet(g2.data, g2.access, now, t, u, "resp_format", "both")
    IN  [data |-> g3.data, access |-> g3.access,
         voice_id |-> g1.ret, mode |-> g2.ret, fmt |-> g3.ret]

\* A store write followed by send_main_menu, the body of on_voice,
\* on_ssml_mode and on_format.
SetThenMenu(u, k, v) ==
    LET w == StoreSet(data, lastAccess, clock, ttl, u, k, v)
        m == MenuGets(w.data, w.access, clock, ttl, u)
    IN  /\ data' = m.data
        /\ lastAccess' = m.access

\* What no handler touches: the clock and the constructor arguments.  The
\* history variables belong to the store, limiter and cache specifications;
\* the bot specification does not keep them.
BotFrame ==
    UNCHANGED <<clock, ttl, hLastOp, hCont, hLatest, max_requests, window,
                hAdmitted, hLastCheck, hRejected, config, phase, threads>>

\* send_welcome (/start): the catalog, from the cache or the provider; when
\* that raises, an error reply and nothing else; otherwise both buckets
\* are rebuilt, the reverse maps written, and the main menu sent.
SendWelcome(u, resp) ==
    /\ phase = "polling"
    /\ \E c \in {GetVoicesCached(voicesCache, clock, client, config, resp)} :
           /\ voicesCache' = c.cache
           /\ client' = c.client
           /\ IF c.raised
              THEN /\ ret' = <<"reply:voices_failed">>
                   /\ last' = Handled("start", u, FALSE, FALSE, FALSE, TRUE,
                                      c.value = "RuntimeError")
                   /\ UNCHANGED <<data, lastAccess, indexVars>>
              ELSE \E r \in {IndexCatalog(c.value, voice_id_to_name,
                                          voice_id_to_lang)},
                      m \in {MenuGets(data, lastAccess, clock, ttl, u)} :
                       /\ category_to_voices' =
                             [male |-> r.male, female |-> r.female]
                       /\ voice_id_to_name' = r.names
                       /\ voice_id_to_lang' = r.langs
                       /\ data' = m.data
                       /\ lastAccess' = m.access
                       /\ ret' = <<"menu">>
                       /\ last' = Handled("start", u, FALSE, FALSE, TRUE,
                                          TRUE, FALSE)
    /\ UNCHANGED <<requests, quotaCache, hUnknownAt>>
    /\ BotFrame

\* on_category: the voices of a bucket as buttons, or a notice that there
\* are none.
OnCategory(u, cat) ==
    /\ phase = "polling"
    /\ ret' = IF category_to_voices[cat] = <<>>
              THEN <<"answer:no_voices">> ELSE <<"edit:voices">>
    /\ last' = Handled("cat", u, FALSE, FALSE, FALSE, FALSE, FALSE)
    /\ UNCHANGED <<data, lastAccess, requests, cacheVars, indexVars>>
    /\ BotFrame

\* on_voice: store the chosen voice, show the menu.
OnVoice(u, vid) ==
    /\ phase = "polling"
    /\ SetThenMenu(u, "voice_id", vid)
    /\ ret' = <<"answer:voice_chosen", "menu">>
    /\ last' = Handled("voice", u, FALSE, FALSE, TRUE, FALSE, FALSE)
    /\ UNCHANGED <<requests, cacheVars, indexVars>>
    /\ BotFrame

\* on_settings and on_back_to_menu: the store reads of the current settings.
OnSettings(u) ==
    /\ phase = "polling"
    /\ LET m == MenuGets(data, lastAccess, clock, ttl, u)
       IN  data' = m.data /\ lastAccess' = m.access
    /\ ret' = <<"edit:settings">>
    /\ last' = Handled("settings", u, FALSE, FALSE, TRUE, FALSE, FALSE)
    /\ UNCHANGED <<requests, cacheVars, indexVars>>
    /\ BotFrame

OnBackToMenu(u) ==
    /\ phase = "polling"
    /\ LET m == MenuGets(data, lastAccess, clock, ttl, u)
       IN  data' = m.data /\ lastAccess' = m.access
    /\ ret' = <<"answer", "menu">>
    /\ last' = Handled("back_to_menu", u, FALSE, FALSE, TRUE, FALSE, FALSE)
    /\ UNCHANGED <<requests, cacheVars, indexVars>>
    /\ BotFrame

\* on_ssml_mode: store the mode, whatever it is, show the menu.
OnSsmlMode(u, mode) ==
    /\ phase = "polling"
    /\ SetThenMenu(u, "ssml_mode", mode)
    /\ ret' = <<"answer:mode", "menu">>
    /\ last' = Handled("ssml", u, FALSE, FALSE, TRUE, FALSE, FALSE)
    /\ UNCHANGED <<requests, cacheVars, indexVars>>
    /\ BotFrame

\* An on_format that stores whatever format the callback carries.
OnFormatStoresAny(u, fmt) ==
    /\ phase = "polling"
    /\ SetThenMenu(u, "resp_format", fmt)
    /\ ret' = <<"answer:format", "menu">>
    /\ last' = Handled("fmt", u, FALSE, FALSE, TRUE, FALSE, FALSE)
                    @@ [fmt |-> fmt]
    /\ UNCHANGED <<requests, cacheVars, indexVars>>
    /\ BotFrame

\* on_format: an unknown format is answered and not stored; a format of
\* BotConfig is stored and the menu shown.
OnFormat(u, fmt) ==
    /\ phase = "polling"
    /\ IF fmt \notin {"ogg", "mp3", "both"}
       THEN /\ ret' = <<"answer:unknown_format">>
            /\ last' = Handled("fmt", u, FALSE, FALSE, FALSE, FALSE, FALSE)
                            @@ [fmt |-> fmt]
            /\ UNCHANGED <<data, lastAccess>>
       ELSE /\ SetThenMenu(u, "resp_format", fmt)
            /\ ret' = <<"answer:format", "menu">>
            /\ last' = Handled("fmt", u, FALSE, FALSE, TRUE, FALSE, FALSE)
                            @@ [fmt |-> fmt]
    /\ UNCHANGED <<requests, cacheVars, indexVars>>
    /\ BotFrame

\* Text messages: the sender (absent, a user, a bot) and the text.  A text
\* is short, longer than MAX_TTS_CHARS, or what prepare_for_tts made of
\* the short one.
Texts == {"text", "long text"}
TextLen ==
    [x \in {"text", "prepared text", "long text"} |->
        CASE x = "text" -> 1
          [] x = "prepared text" -> 2
          [] OTHER -> MAX_TTS_CHARS + 1]
Messages == [sender : {NONE} \cup {Some(u) : u \in BotUsers},
             is_bot : BOOLEAN, text : Texts]
\* What prepare_for_tts and the two generate_audio requests answer.
PrepareOutcomes ==
    {[raised |-> FALSE, value |-> "prepared text"],
     [raised |-> TRUE, value |-> "text"]}
AudioOutcomes == {"ok", "ApiError"}
\* What the quota request answers while the bot runs: an error, an answer
\* without fields, no characters left, one character left.
BotQuotaResponses ==
    { q \in QuotaResponses :
        \/ q.raised
        \/ ~q.raised /\ q.status = HTTP_OK /\ q.limit \in {NONE, Some(1)}
                     /\ q.used \in {Some(0), Some(1)} }

\* A validation that lets the messages of bots through.
ValidateUserMessageBots(msg) == msg.sender # NONE

\* validate_user_message: a sender that is not a bot.
ValidateUserMessage(msg) == msg.sender # NONE /\ ~msg.is_bot

\* A handler that goes on after the limiter said no.
RateLimitedNever(allowed) == FALSE

\* if not rate_limiter.is_allowed(user_id): reply and return.
RateLimited(allowed) == ~allowed

\* ---------------------------------------------------------- prepare_for_tts
\* A text is a sequence of characters: a letter, a space, a tab.
PrepChars == {"a", " ", "\t"}
IsSpace(c) == c \in {" ", "\t"}

\* re.sub(r"\s+", " ", content): every run of whitespace becomes one space.
RECURSIVE CollapseSpaces(_)
CollapseSpaces(str) ==
    IF str = <<>> THEN <<>>
    ELSE LET rest == CollapseSpaces(Tail(str))
         IN  IF ~IsSpace(Head(str)) THEN <<Head(str)>> \o rest
             ELSE IF rest # <<>> /\ rest[1] = " " THEN rest
             ELSE <<" ">> \o rest

\* str.strip(): no whitespace at either end.
RECURSIVE LStrip(_)
LStrip(str) ==
    IF str # <<>> /\ IsSpace(Head(str)) THEN LStrip(Tail(str)) ELSE str
RECURSIVE RStrip(_)
RStrip(str) ==
    IF str # <<>> /\ IsSpace(str[Len(str)])
    THEN RStrip(SubSeq(str, 1, Len(str) - 1)) ELSE str
Strip(str) == RStrip(LStrip(str))

\* `not x` of an Optional[str]: None and "" are both false.
Truthy(opt) == opt # NONE /\ opt[1] # <<>>

\* _load_prompt: the prompt of the style from pre_processing.json, "" when
\* the file cannot be read or has no such key.
LoadPrompt(style, prompts) ==
    IF prompts = NONE THEN <<>>
    ELSE IF style = "announcer" THEN prompts[1].announcer
    ELSE IF style = "conversational" THEN prompts[1].conversational
    ELSE <<>>

\* What prepare_for_tts finds around it: OPENAI_API_KEY in the environment
\* and in config (absent or set), the prompt file (unreadable, or with an
\* empty or a real prompt for each style), whether OpenAI(...) raises, and
\* what chat.completions.create answers: an exception, no choices, or a
\* content that is None or a text of at most PrepMaxLen characters.
PrepEnvs ==
    [env_key : {NONE, Some(<<"k">>)},
     cfg_key : {NONE, Some(<<"k">>)},
     prompts : {NONE} \cup {Some(f) : f \in [announcer : {<<>>, <<"p">>},
                                             conversational : {<<>>, <<"p">>}]},
     ctor_raises : BOOLEAN,
     create : [kind : {"raise", "no_choices"}, content : {NONE}]
                \cup [kind : {"content"},
                      content : {NONE} \cup
                          {Some(c) : c \in SeqsUpTo(PrepChars, PrepMaxLen)}]]

\* prepare_for_tts: the text itself without a key, without a prompt, on an
\* exception of the request and on an empty content; otherwise the content
\* with whitespace normalised.  OpenAI(...) is outside the try block.
PrepareForTts(text, style, env) ==
    LET api_key == IF Truthy(env.env_key) THEN env.env_key ELSE env.cfg_key
        system_prompt == LoadPrompt(style, env.prompts)
        content == IF env.create.kind = "content" THEN env.create.content
                   ELSE NONE
    IN  IF ~Truthy(api_key) THEN [raised |-> FALSE, value |-> text]
        ELSE IF system_prompt = <<>> THEN [raised |-> FALSE, value |-> text]
        ELSE IF env.ctor_raises THEN [raised |-> TRUE, value |-> <<>>]
        ELSE IF env.create.kind = "raise"
        THEN [raised |-> FALSE, value |-> text]
        ELSE IF ~Truthy(content) THEN [raised |-> FALSE, value |-> text]
        ELSE [raised |-> FALSE,
              value |-> Strip(CollapseSpaces(content[1]))]

\* style = "announcer" if mode == "announcer" else "conversational"
StyleOf(mode) == IF mode = "announcer" THEN "announcer" ELSE "conversational"

\* A preprocessing without the try block around prepare_for_tts.
PreprocessTextUnguarded(mode, text, prep) ==
    IF mode = "off"
    THEN [raised |-> FALSE, value |-> text, called |-> FALSE]
    ELSE [raised |-> prep.raised, value |-> prep.value, called |-> TRUE]

\* preprocess_text_if_needed after its store read: the text itself when the
\* mode is off (prepare_for_tts is not called) or prepare_for_tts raises,
\* what prepare_for_tts returns otherwise.  prep is the answer of
\* prepare_for_tts for the style of the mode.
PreprocessTextIfNeeded(mode, text, prep) ==
    IF mode = "off"
    THEN [raised |-> FALSE, value |-> text, called |-> FALSE]
    ELSE IF prep.raised
    THEN [raised |-> FALSE, value |-> text, called |-> TRUE]
    ELSE [raised |-> FALSE, value |-> prep.value, called |-> TRUE]

\* preprocess_text_if_needed(user_id, text): read the mode from the store,
\* then preprocess.
CallPreprocess ==
    /\ last.op = "prep_input"
    /\ \E g \in {StoreGet(data, lastAccess, clock, ttl, last.user,
                          "ssml_mode", "off")} :
         \E r \in {PreprocessTextIfNeeded(g.ret, last.text,
                      PrepareForTts(last.text, StyleOf(g.ret), last.env))} :
           /\ data' = g.data
           /\ lastAccess' = g.access
           /\ ret' = [raised |-> r.raised, value |-> r.value]
           /\ last' = [last EXCEPT !.op = "prep", !.mode = g.ret,
                                   !.called = r.called]
    /\ UNCHANGED <<clock, ttl, hLastOp, hCont, hLatest, limiterVars, appVars,
                   threads>>

\* A sending part that, for both formats, goes on to the mp3 request after
\* the opus request or its send failed.
SendAudioGoesOn(fmt, cl, cfg, audio) ==
    LET g == GetClient(cl, cfg)
        ogg == fmt \in {"ogg", "both"}
        mp3 == fmt \in {"mp3", "both"}
    IN  IF g.raised \/ (~ogg /\ ~mp3)
        THEN [out |-> <<>>, client |-> g.client, config_error |-> g.raised,
              calls |-> <<>>]
        ELSE [out |-> (IF ogg /\ audio[1] = "ok" THEN <<"voice">> ELSE <<>>)
                        \o (IF mp3 /\ audio[2] = "ok" THEN <<"audio">>
                            ELSE <<>>),
              client |-> g.client, config_error |-> FALSE,
              calls |-> (IF ogg THEN <<"opus">> ELSE <<>>)
                          \o (IF mp3 THEN <<"mp3">> ELSE <<>>)]

\* The sending part of generate_voice: generate_audio and send_voice for
\* ogg and both, generate_audio and send_audio for mp3 and both; the first
\* error ends the handler with a reply.  audio[1] and audio[2] are how the
\* opus and the mp3 request fare: "ok", an ApiError of generate_audio, or an
\* error of the send ("send_error").  calls lists the generate_audio calls
\* made.
SendAudio(fmt, cl, cfg, audio) ==
    LET g == GetClient(cl, cfg)
        ogg == fmt \in {"ogg", "both"}
        mp3 == fmt \in {"mp3", "both"}
        Failed(a) == IF a = "ApiError" THEN <<"reply:api_error">>
                     ELSE <<"reply:generate_failed">>
    IN  IF ~ogg /\ ~mp3
        THEN [out |-> <<>>, client |-> cl, config_error |-> FALSE,
              calls |-> <<>>]
        ELSE IF g.raised
        THEN [out |-> <<"reply:generate_failed">>, client |-> g.client,
              config_error |-> TRUE,
              calls |-> IF ogg THEN <<"opus">> ELSE <<"mp3">>]
        ELSE IF ogg /\ audio[1] # "ok"
        THEN [out |-> Failed(audio[1]), client |-> g.client,
              config_error |-> FALSE, calls |-> <<"opus">>]
        ELSE IF mp3 /\ audio[2] # "ok"
        THEN [out |-> (IF ogg THEN <<"voice">> ELSE <<>>)
                        \o Failed(audio[2]),
              client |-> g.client, config_error |-> FALSE,
              calls |-> (IF ogg THEN <<"opus">> ELSE <<>>) \o <<"mp3">>]
        ELSE [out |-> (IF ogg THEN <<"voice">> ELSE <<>>)
                        \o (IF mp3 THEN <<"audio">> ELSE <<>>),
              client |-> g.client, config_error |-> FALSE,
              calls |-> (IF ogg THEN <<"opus">> ELSE <<>>)
                          \o (IF mp3 THEN <<"mp3">> ELSE <<>>)]

\* What generate_voice was seen to do besides its replies: whether and with
\* what answer the quota was looked up, the text after preprocessing, and
\* the generate_audio calls made, in order.
Seen(looked_up, remaining, processed, calls) ==
    [looked_up |-> looked_up, remaining |-> remaining,
     processed |-> processed, calls |-> calls]
NothingSeen == Seen(FALSE, NONE, "-", <<>>)

\* generate_voice on the state st = [requests, data, access, quota,
\* client]: validation, the rate limiter, the chosen voice, the length,
\* the preprocessing, the quota, the sending.  Each early return leaves
\* the later parts of the state as they are.
GenerateVoiceResult(st, now, t, w, m, cfg, msg, prep, qresp, audio) ==
    IF ~ValidateUserMessage(msg)
    THEN [st |-> st, out |-> <<>>, seen |-> NothingSeen,
          rec |-> Handled("text", "-", FALSE, FALSE, FALSE, FALSE, FALSE)]
    ELSE
    LET u == msg.sender[1]
        lim == LimiterCheck(RequestsOf(st.requests, u), now, w, m)
        st1 == [st EXCEPT !.requests = Put(st.requests, u, lim.reqs)]
    IN  IF RateLimited(lim.ok)
        THEN [st |-> st1, out |-> <<"reply:rate_limited">>,
              seen |-> NothingSeen,
              rec |-> Handled("text", u, TRUE, lim.ok, FALSE, FALSE, FALSE)]
        ELSE
    LET g1 == StoreGet(st1.data, st1.access, now, t, u, "voice_id", "None")
        st2 == [st1 EXCEPT !.data = g1.data, !.access = g1.access]
    IN  IF g1.ret \in {"None", ""}
        THEN [st |-> st2, out |-> <<"reply:choose_voice">>,
              seen |-> NothingSeen,
              rec |-> Handled("text", u, TRUE, lim.ok, TRUE, FALSE, FALSE)]
        ELSE IF TextLen[msg.text] > MAX_TTS_CHARS
        THEN [st |-> st2, out |-> <<"reply:too_long">>,
              seen |-> NothingSeen,
              rec |-> Handled("text", u, TRUE, lim.ok, TRUE, FALSE, FALSE)]
        ELSE
    LET g2 == StoreGet(st2.data, st2.access, now, t, u, "ssml_mode", "off")
        processed == PreprocessTextIfNeeded(g2.ret, msg.text, prep).value
        q == CheckQuota(st2.quota, now, cfg, qresp)
        st3 == [st2 EXCEPT !.data = g2.data, !.access = g2.access,
                           !.quota = q.cache]
    IN  IF q.value # NONE /\ q.value[1] < TextLen[processed]
        THEN [st |-> st3, out |-> <<"reply:quota">>,
              seen |-> Seen(TRUE, q.value, processed, <<>>),
              rec |-> Handled("text", u, TRUE, lim.ok, TRUE, TRUE, FALSE)]
        ELSE
    LET g3 == StoreGet(st3.data, st3.access, now, t, u, "ssml_mode", "off")
        g4 == StoreGet(g3.data, g3.access, now, t, u, "resp_format", "both")
        s == SendAudio(g4.ret, st3.client, cfg, audio)
    IN  [st |-> [st3 EXCEPT !.data = g4.data, !.access = g4.access,
                            !.client = s.client],
         out |-> s.out,
         seen |-> Seen(TRUE, q.value, processed, s.calls),
         rec |-> Handled("text", u, TRUE, lim.ok, TRUE, TRUE, s.config_error)]

\* generate_voice, the handler of every other message.
GenerateVoice(msg, prep, qresp, audio) ==
    /\ phase = "polling"
    /\ \E r \in {GenerateVoiceResult(
                    [requests |-> requests, data |-> data,
                     access |-> lastAccess, quota |-> quotaCache,
                     client |-> client],
                    clock, ttl, window, max_requests, config,
                    msg, prep, qresp, audio)} :
           /\ requests' = r.st.requests
           /\ data' = r.st.data
           /\ lastAccess' = r.st.access
           /\ quotaCache' = r.st.quota
           /\ client' = r.st.client
           /\ ret' = r.out
           /\ last' = r.rec
    /\ UNCHANGED <<voicesCache, hUnknownAt, indexVars>>
    /\ BotFrame

\* generate_voice again, keeping in the record of the event the message,
\* what the handler was seen to do and, when generate_audio was called, how
\* the requests fared.
GenerateVoiceObserved(msg, prep, qresp, audio) ==
    /\ phase = "polling"
    /\ \E r \in {GenerateVoiceResult(
                    [requests |-> requests, data |-> data,
                     access |-> lastAccess, quota |-> quotaCache,
                     client |-> client],
                    clock, ttl, window, max_requests, config,
                    msg, prep, qresp, audio)} :
           /\ requests' = r.st.requests
           /\ data' = r.st.data
           /\ lastAccess' = r.st.access
           /\ quotaCache' = r.st.quota
           /\ client' = r.st.client
           /\ ret' = r.out
           /\ last' = r.rec @@ r.seen
                        @@ [sender |-> msg.sender, is_bot |-> msg.is_bot,
                            text |-> msg.text,
                            audio |-> IF r.seen.calls = <<>> THEN <<>>
                                      ELSE audio]
    /\ UNCHANGED <<voicesCache, hUnknownAt, indexVars>>
    /\ BotFrame

\* How the opus and the mp3 request and the sends after them fare.
SessAudioOutcomes ==
    {<<"ok", "ok">>, <<"ApiError", "ok">>, <<"send_error", "ok">>,
     <<"ok", "ApiError">>, <<"ok", "send_error">>}
\* The messages of the session specification: a short and a long text of
\* the user, a message without sender, a message of a bot.
SessMessages ==
    {m \in Messages : /\ m.text = "text" \/ (m.sender # NONE /\ ~m.is_bot)
                      /\ m.sender = NONE => ~m.is_bot}

\* The clock of the session specification moves on by one second.
SessTick ==
    /\ clock < SessMaxClock
    /\ clock' = clock + 1
    /\ ret' = <<>>
    /\ last' = NoCall
    /\ UNCHANGED <<storeVars, limiterVars, appVars, threads>>

\* The instants of the bot specification: the second in which the bot
\* starts, and the second in which a catalog fetched then expires.
BotInstants == {0, VOICE_CACHE_TTL_SECONDS} \cap (0..BotMaxClock)

BotTick ==
    /\ phase = "polling"
    /\ \E t \in BotInstants : t > clock /\ clock' = t
    /\ ret' = "None"
    /\ last' = NoCall
    /\ UNCHANGED <<storeVars, limiterVars, appVars, threads>>

\* -------------------------------------------- is_allowed, statement by statement
\* is_allowed takes no lock.  Two threads each run the body of is_allowed,
\* one statement at a time: read the clock, prune the user's list, test the
\* limit, append.
Idle == [pc |-> "idle", now |-> Never, user |-> "-"]

\* now = time.time(); cutoff = now - self.window
Begin(th, u) ==
    /\ threads[th].pc = "idle"
    /\ threads' = [threads EXCEPT ![th] = [pc |-> "prune", now |-> clock,
                                           user |-> u]]
    /\ ret' = "None"
    /\ last' = NoCall
    /\ UNCHANGED <<clock, storeVars, limiterVars, appVars>>

\* self._requests[user_id] = [t for t in self._requests[user_id] if t > cutoff]
PruneStep(th) ==
    /\ threads[th].pc = "prune"
    /\ LET u == threads[th].user
       IN  requests' = Put(requests, u,
                           Prune(RequestsOf(requests, u), threads[th].now,
                                 window))
    /\ threads' = [threads EXCEPT ![th].pc = "test"]
    /\ ret' = "None"
    /\ last' = NoCall
    /\ UNCHANGED <<clock, max_requests, window, hAdmitted, hLastCheck,
                   hRejected, storeVars, appVars>>

\* if len(self._requests[user_id]) >= self.max_requests: return False
TestStep(th) ==
    /\ threads[th].pc = "test"
    /\ LET u == threads[th].user
       IN  IF OverLimit(RequestsOf(requests, u), max_requests)
           THEN /\ threads' = [threads EXCEPT ![th] = Idle]
                /\ ret' = FALSE
                /\ last' = [op |-> "is_allowed", user |-> u, key |-> "-",
                            arg |-> "-", prev |-> hLastCheck[u]]
                /\ hLastCheck' = [hLastCheck EXCEPT ![u] = threads[th].now]
                /\ hRejected' = hRejected \cup {u}
           ELSE /\ threads' = [threads EXCEPT ![th].pc = "append"]
                /\ ret' = "None"
                /\ last' = NoCall
                /\ UNCHANGED <<hLastCheck, hRejected>>
    /\ UNCHANGED <<clock, max_requests, window, requests, hAdmitted,
                   storeVars, appVars>>

\* self._requests[user_id].append(now); return True
AppendStep(th) ==
    /\ threads[th].pc = "append"
    /\ LET u == threads[th].user
       IN  /\ requests' = Put(requests, u,
                              Append(RequestsOf(requests, u), threads[th].now))
           /\ hAdmitted' = [hAdmitted EXCEPT ![u] = Append(@, threads[th].now)]
           /\ hLastCheck' = [hLastCheck EXCEPT ![u] = threads[th].now]
           /\ last' = [op |-> "is_allowed", user |-> u, key |-> "-",
                       arg |-> "-", prev |-> hLastCheck[u]]
    /\ threads' = [threads EXCEPT ![th] = Idle]
    /\ ret' = TRUE
    /\ UNCHANGED <<clock, max_requests, window, hRejected, storeVars, appVars>>

RaceTick ==
    /\ clock < RaceMaxClock
    /\ clock' = clock + 1
    /\ ret' = "None"
    /\ last' = NoCall
    /\ UNCHANGED <<threads, storeVars, limiterVars, appVars>>

\* No call of is_allowed is under way.
RaceInit == threads = [th \in Threads |-> Idle]

\* user_data_store = UserDataStore(ttl_seconds=...): both maps empty.
StoreInit ==
    /\ ttl = SmallTTL
    /\ data = EmptyFn
    /\ lastAccess = EmptyFn
    /\ hLastOp = [u \in Users |-> Never]
    /\ hCont = [u \in Users |-> TRUE]
    /\ hLatest = [u \in Users |-> [k \in Keys |-> Unset]]

\* RateLimiter(max_requests=m, window_seconds=w): no request recorded.
LimiterInit(m, w) ==
    /\ max_requests = m
    /\ window = w
    /\ requests = EmptyFn
    /\ hAdmitted = [u \in Users |-> <<>>]
    /\ hLastCheck = [u \in Users |-> Never]
    /\ hRejected = {}

Init ==
    /\ clock = 0
    /\ ret = "None"
    /\ last = NoCall
    /\ StoreInit
    /\ LimiterInit(SmallMaxRequests, SmallWindow)
    /\ CacheInit(AllSet)
    /\ IndexInit
    /\ phase = "polling"
    /\ RaceInit

\* rate_limiter = RateLimiter(max_requests=10, window_seconds=60)
ProdInit ==
    /\ clock = 0
    /\ ret = "None"
    /\ last = NoCall
    /\ StoreInit
    /\ LimiterInit(ProdMaxRequests, ProdWindow)
    /\ CacheInit(AllSet)
    /\ IndexInit
    /\ phase = "polling"
    /\ RaceInit

Next ==
    \/ StoreTick
    \/ \E u \in Users, k \in Keys, dflt \in Defaults : Get(u, k, dflt)
    \/ \E u \in Users, k \in Keys, v \in Values : Set(u, k, v)

Spec == Init /\ [][Next]_vars

\* The limiter alone, with a small limit and window, every second visited.
LimiterNext ==
    \/ LimiterTick
    \/ \E u \in Users : IsAllowed(u)

LimiterSpec == Init /\ [][LimiterNext]_vars

\* The limiter as the bot constructs it, one key, on the instants of the grid.
ProdNext ==
    \/ ProdTick
    \/ \E u \in ProdUsers : IsAllowed(u)

ProdSpec == ProdInit /\ [][ProdNext]_vars

\* The two caches alone.  The credentials are those of the environment:
\* the bot token is set (the module would not import otherwise), the
\* provider key is set or not.
CacheSpecInit ==
    /\ clock = 0
    /\ ret = "None"
    /\ last = NoCall
    /\ StoreInit
    /\ LimiterInit(ProdMaxRequests, ProdWindow)
    /\ \E cfg \in Configs : cfg.bot_token /\ CacheInit(cfg)
    /\ IndexInit
    /\ phase = "polling"
    /\ RaceInit

CacheNext ==
    \/ CacheTick
    \/ \E resp \in VoiceResponses : CallGetVoicesCached(resp)
    \/ \E resp \in QuotaResponses : CallCheckQuota(resp)

CacheSpec == CacheSpecInit /\ [][CacheNext]_vars

\* The indexer alone, applied once to every catalog of AllCatalogs.
IndexSpecInit ==
    /\ clock = 0
    /\ ret = "None"
    /\ \E cat \in AllCatalogs : last = [op |-> "catalog", voices |-> cat]
    /\ StoreInit
    /\ LimiterInit(ProdMaxRequests, ProdWindow)
    /\ CacheInit(AllSet)
    /\ IndexInit
    /\ phase = "polling"
    /\ RaceInit

IndexNext == BuildIndex

IndexSpec == IndexSpecInit /\ [][IndexNext]_vars

\* The bot from import on.  The store has the ttl the bot gives it; the
\* limiter has the model-sized limit and window, so that a third message
\* within three seconds is rejected.
BotInit ==
    /\ clock = 0
    /\ ret = "None"
    /\ last = NoCall
    /\ ttl = USER_DATA_TTL_SECONDS
    /\ data = EmptyFn
    /\ lastAccess = EmptyFn
    /\ hLastOp = [u \in Users |-> Never]
    /\ hCont = [u \in Users |-> TRUE]
    /\ hLatest = [u \in Users |-> [k \in Keys |-> Unset]]
    /\ LimiterInit(SmallMaxRequests, SmallWindow)
    /\ \E cfg \in Configs : CacheInit(cfg)
    /\ IndexInit
    /\ phase = "import"
    /\ RaceInit

BotNext ==
    \/ Import
    \/ BotTick
    \/ \E u \in BotUsers, resp \in VoiceResponses : SendWelcome(u, resp)
    \/ \E u \in BotUsers, cat \in BotCategories : OnCategory(u, cat)
    \/ \E u \in BotUsers, vid \in BotVoiceIds : OnVoice(u, vid)
    \/ \E u \in BotUsers : OnSettings(u)
    \/ \E u \in BotUsers : OnBackToMenu(u)
    \/ \E u \in BotUsers, mode \in BotModes : OnSsmlMode(u, mode)
    \/ \E u \in BotUsers, fmt \in BotFormats : OnFormat(u, fmt)
    \/ \E msg \in Messages, prep \in PrepareOutcomes,
          qresp \in BotQuotaResponses,
          audio \in AudioOutcomes \X AudioOutcomes :
            GenerateVoice(msg, prep, qresp, audio)

BotSpec == BotInit /\ [][BotNext]_vars

\* Calls of is_allowed by two threads, interleaved statement by statement.
RaceNext ==
    \/ RaceTick
    \/ \E th \in Threads, u \in Users : Begin(th, u)
    \/ \E th \in Threads : PruneStep(th)
    \/ \E th \in Threads : TestStep(th)
    \/ \E th \in Threads : AppendStep(th)

RaceSpec == Init /\ [][RaceNext]_vars

\* preprocess_text_if_needed alone, applied once to every text, stored mode
\* and surrounding of PrepEnvs.  The stored mode is the one on_ssml_mode
\* wrote at the same second, or none.
PrepInit ==
    /\ clock = 0
    /\ ret = "None"
    /\ ttl = USER_DATA_TTL_SECONDS
    /\ \E mode \in {"off", "announcer", "conversational", "other", Unset} :
         LET w == StoreSet(EmptyFn, EmptyFn, 0, USER_DATA_TTL_SECONDS,
                           "u1", "ssml_mode", mode)
         IN  /\ data = IF mode = Unset THEN EmptyFn ELSE w.data
             /\ lastAccess = IF mode = Unset THEN EmptyFn ELSE w.access
    /\ \E text \in {<<"a">>, <<"a", " ", "a">>}, env \in PrepEnvs :
         last = [op |-> "prep_input", user |-> "u1", text |-> text,
                 env |-> env, mode |-> "-", called |-> FALSE]
    /\ hLastOp = [u \in Users |-> Never]
    /\ hCont = [u \in Users |-> TRUE]
    /\ hLatest = [u \in Users |-> [k \in Keys |-> Unset]]
    /\ LimiterInit(ProdMaxRequests, ProdWindow)
    /\ CacheInit(AllSet)
    /\ IndexInit
    /\ phase = "polling"
    /\ RaceInit

PrepNext == CallPreprocess

PrepSpec == PrepInit /\ [][PrepNext]_vars

\* The handlers that read and write the session state of a user, with a
\* store and a limiter of model size; the bot is polling.  ret is the list
\* of replies of the last event, empty at the start and after a tick.  A
\* format callback carries one of the formats of BotConfig or "wav"; the
\* quota request answers with an error, no character or one character left.
SessInit ==
    /\ clock = 0
    /\ ret = <<>>
    /\ last = NoCall
    /\ ttl = SessTTL
    /\ data = EmptyFn
    /\ lastAccess = EmptyFn
    /\ hLastOp = [u \in Users |-> Never]
    /\ hCont = [u \in Users |-> TRUE]
    /\ hLatest = [u \in Users |-> [k \in Keys |-> Unset]]
    /\ LimiterInit(SessMaxRequests, SessWindow)
    /\ CacheInit(AllSet)
    /\ IndexInit
    /\ phase = "polling"
    /\ RaceInit

SessNext ==
    \/ SessTick
    \/ \E u \in BotUsers, vid \in BotVoiceIds : OnVoice(u, vid)
    \/ \E u \in BotUsers, mode \in BotModes : OnSsmlMode(u, mode)
    \/ \E u \in BotUsers, fmt \in {"ogg", "mp3", "both", "wav"} :
            OnFormat(u, fmt)
    \/ \E msg \in SessMessages, prep \in PrepareOutcomes,
          qresp \in {q \in BotQuotaResponses : q.raised \/ q.limit # NONE},
          audio \in SessAudioOutcomes :
            GenerateVoiceObserved(msg, prep, qresp, audio)

SessSpec == SessInit /\ [][SessNext]_vars

\* ------------------------------------------------------ UserDataStore claims
\* The call that just returned was a store call.
StoreCallReturned == last.op \in {"get", "set"}

\* The caller of the call that just returned had been silent for more than ttl.
CallerWasIdle == last.prev # Never /\ clock - last.prev > ttl

\* C1: when a get or set returns, no user is tracked, in the access-time map
\* or in the data map, whose lastAccess is more than ttl seconds before the
\* time of the call.
C1_NoExpiredUserAfterCall ==
    StoreCallReturned =>
        \A w \in DOMAIN lastAccess \cup DOMAIN data :
            w \in DOMAIN lastAccess /\ clock - lastAccess[w] <= ttl

\* A call has returned that evicted another user who had a record.
C1_Witness ==
    /\ StoreCallReturned
    /\ \E w \in Users \ {last.user} :
          /\ hLastOp[w] # Never /\ clock - hLastOp[w] > ttl
          /\ \E k \in Keys : hLatest[w][k] # Unset
          /\ w \notin DOMAIN lastAccess /\ w \notin DOMAIN data
    /\ last.user \in DOMAIN lastAccess

\* C2: a get by a user whose previous store call is more than ttl seconds
\* ago returns the default, for every key, whatever the user had set and
\* whether or not other users called in the meantime.
C2_IdleUserGetsDefault ==
    (last.op = "get" /\ CallerWasIdle) => ret = last.arg

\* An idle user whose key had been set to a value other than the default
\* asks for it, after another user called in the meantime.
C2_Witness ==
    /\ last.op = "get" /\ CallerWasIdle
    /\ hLatest[last.user][last.key] \notin {Unset, last.arg}
    /\ ret = last.arg
    /\ \E w \in Users \ {last.user} : hLastOp[w] > last.prev

\* C3: while every gap between consecutive store calls of a user is at most
\* ttl seconds the user's record is never evicted, and a get returns the
\* value most recently set for the key (the default if none was), whatever
\* other users do.
C3_AccessExtendsLiveness ==
    /\ \A u \in Users :
          (hCont[u] /\ hLastOp[u] # Never /\ clock - hLastOp[u] <= ttl) =>
              /\ u \in DOMAIN lastAccess
              /\ \A k \in Keys :
                    hLatest[u][k] # Unset =>
                        /\ u \in DOMAIN data
                        /\ k \in DOMAIN data[u]
                        /\ data[u][k] = hLatest[u][k]
    /\ (last.op = "get" /\ hCont[last.user]) =>
          ret = IF hLatest[last.user][last.key] = Unset
                THEN last.arg ELSE hLatest[last.user][last.key]

\* A user who called again exactly ttl seconds after the previous call, more
\* than ttl seconds after the store was created, reads a value back while
\* another user has been evicted.
C3_Witness ==
    /\ last.op = "get" /\ hCont[last.user]
    /\ last.prev # Never /\ clock - last.prev = ttl /\ clock > ttl
    /\ hLatest[last.user][last.key] \notin {Unset, last.arg}
    /\ ret = hLatest[last.user][last.key]
    /\ \E w \in Users \ {last.user} : ~hCont[w]

\* C4: every get or set first evicts every tracked user whose lastAccess is
\* more than ttl seconds in the past: another user's record and access time
\* are both gone, and of the caller's own expired record no key survives
\* (a set leaves only the key it writes).
C4_CallEvictsWholeRecords ==
    [][(last'.op \in {"get", "set"}) =>
        \A w \in DOMAIN lastAccess :
            (clock - lastAccess[w] > ttl) =>
                IF w = last'.user
                THEN /\ lastAccess'[w] = clock
                     /\ (last'.op = "get" => w \notin DOMAIN data')
                     /\ (last'.op = "set" => DOMAIN data'[w] = {last'.key})
                ELSE w \notin DOMAIN data' /\ w \notin DOMAIN lastAccess']_vars

\* A call by one user has returned and another user, who had set both keys
\* and then expired, has neither a record nor an access time.
C4_Witness ==
    /\ StoreCallReturned
    /\ \E w \in Users \ {last.user} :
          /\ \A k \in Keys : hLatest[w][k] # Unset
          /\ hLastOp[w] # Never /\ clock - hLastOp[w] > ttl
          /\ w \notin DOMAIN data /\ w \notin DOMAIN lastAccess

\* C5: once set(u, k, v) has returned, calling it again with the same user,
\* key and value changes neither map, so every later get of every user and
\* key returns what it would have returned after the first call.
C5_SetTwiceIsSetOnce ==
    last.op = "set" =>
        LET again == StoreSet(data, lastAccess, clock, ttl,
                              last.user, last.key, last.arg)
        IN  again.data = data /\ again.access = lastAccess

\* A set has returned for a user who holds both keys while another user
\* holds a record too.
C5_Witness ==
    /\ last.op = "set"
    /\ last.user \in DOMAIN data /\ DOMAIN data[last.user] = Keys
    /\ \E w \in Users \ {last.user} : w \in DOMAIN data

\* -------------------------------------------------------- RateLimiter claims
\* The call that just returned was is_allowed.
LimiterCallReturned == last.op = "is_allowed"

\* How often the time t occurs in a list of timestamps.
Count(seq, t) == Cardinality({i \in DOMAIN seq : seq[i] = t})

\* The admitted calls of user u at the times lo..hi.
AdmittedIn(u, lo, hi) ==
    Cardinality({i \in DOMAIN hAdmitted[u] :
                    lo <= hAdmitted[u][i] /\ hAdmitted[u][i] <= hi})

\* The time of the user's first call (the first call is always admitted).
FirstCall(u) == hAdmitted[u][1]

IsTail(s, full) ==
    /\ Len(s) <= Len(full)
    /\ s = SubSeq(full, Len(full) - Len(s) + 1, Len(full))

\* C7: a rejected call records nothing: the list afterwards is a tail of the
\* list before and of the admitted calls, and every later admission decision
\* is the one that would have been taken without the rejected call; an
\* admitted call adds exactly one timestamp, now, to such a tail.
C7_RejectedCallNotRecorded ==
    [][(last'.op = "is_allowed") =>
        LET u == last'.user
            old == RequestsOf(requests, u)
            new == requests'[u]
        IN  IF ret' = FALSE
            THEN /\ IsTail(new, old)
                 /\ IsTail(new, hAdmitted[u])
                 /\ \A T \in clock..(clock + window) :
                       OverLimit(Prune(new, T, window), max_requests)
                         = OverLimit(Prune(old, T, window), max_requests)
            ELSE /\ Len(new) >= 1
                 /\ new[Len(new)] = clock
                 /\ IsTail(SubSeq(new, 1, Len(new) - 1), old)]_vars

\* A call has been rejected with the list full, after earlier timestamps of
\* the user had been pruned.
C7_Witness ==
    /\ LimiterCallReturned /\ ret = FALSE
    /\ Len(requests[last.user]) = max_requests
    /\ Len(hAdmitted[last.user]) > max_requests

\* C8 as stated: no closed time interval [a, a + window] holds more than
\* max_requests admitted calls of a key.
C8_ClosedWindowBound ==
    \A u \in Users : \A a \in 0..clock :
        AdmittedIn(u, a, a + window) <= max_requests

\* C8: at most max_requests admitted calls of a key fall inside any
\* half-open interval of length window (window consecutive seconds), also
\* when the interval straddles the boundary of a fixed bucket.
C8_SlidingWindowBound ==
    \A u \in Users : \A a \in 0..clock :
        AdmittedIn(u, a, a + window - 1) <= max_requests

\* A call is rejected in the first second of a fixed bucket, where a
\* per-bucket counter would have started from zero.
C8_Witness ==
    /\ LimiterCallReturned /\ ret = FALSE
    /\ clock > 0 /\ clock % window = 0
    /\ AdmittedIn(last.user, clock - window + 1, clock - 1) = max_requests

\* C9: a key's list is non-decreasing and holds no timestamp older than
\* window seconds relative to the key's most recent check.
C9_ListSortedAndRecent ==
    \A u \in DOMAIN requests :
        /\ \A i \in 1..(Len(requests[u]) - 1) :
              requests[u][i] <= requests[u][i + 1]
        /\ \A i \in DOMAIN requests[u] :
              /\ requests[u][i] <= hLastCheck[u]
              /\ hLastCheck[u] - requests[u][i] <= window

\* After a check that pruned, the list holds two different timestamps, the
\* older one window - 1 seconds old.
C9_Witness ==
    \E u \in DOMAIN requests :
        /\ Len(requests[u]) >= 2
        /\ Len(hAdmitted[u]) > Len(requests[u])
        /\ requests[u][1] = hLastCheck[u] - window + 1
        /\ requests[u][Len(requests[u])] = hLastCheck[u]

\* C10 as stated: after a check at time now the list holds exactly the
\* admitted timestamps t with now - window <= t <= now.
C10_KeepsClosedWindow ==
    \A u \in DOMAIN requests :
        requests[u] = SelectSeq(hAdmitted[u],
                                LAMBDA t : t >= hLastCheck[u] - window)

\* C10: after a check at time now the list holds exactly the admitted
\* timestamps t with now - window < t <= now; a request admitted exactly
\* window seconds before is dropped and no longer counts.
C10_KeepsHalfOpenWindow ==
    \A u \in DOMAIN requests :
        requests[u] = SelectSeq(hAdmitted[u],
                                LAMBDA t : t > hLastCheck[u] - window)

\* A check has dropped a timestamp exactly window seconds old and kept a
\* younger one.
C10_Witness ==
    /\ LimiterCallReturned
    /\ Count(hAdmitted[last.user], clock - window) > 0
    /\ Count(requests[last.user], clock - window) = 0
    /\ Len(requests[last.user]) >= 2

\* ------------------------------------------------------ timed cache claims
\* The entry a cache call found was absent or at least t seconds old.
Stale(pre, t) == pre = NONE \/ clock - pre[1].at >= t

\* C11: a call of get_voices_cached invokes get_all_voices exactly when no
\* entry exists or the entry is at least 3600 seconds old.  A call within
\* the lifetime invokes nothing, returns the cached catalog and leaves the
\* entry as it is; a call at or after 3600 seconds invokes the provider
\* once and, when the provider answers, replaces the entry by the answer
\* stamped with the time of the call.
C11_CatalogFetchedWhenStale ==
    last.op = "get_voices_cached" =>
        LET stale == Stale(last.pre, VOICE_CACHE_TTL_SECONDS)
        IN  /\ last.fetches = (IF stale THEN 1 ELSE 0)
            /\ ~stale =>
                  /\ ret = [raised |-> FALSE, value |-> last.pre[1].value]
                  /\ voicesCache = last.pre
            /\ (stale /\ ~ret.raised) =>
                  /\ ret.value = last.resp.value
                  /\ voicesCache = Some([at |-> clock, value |-> ret.value])

\* A second call one second before the entry expires is served from the
\* cache although the provider would now answer another catalog.
C11_Witness ==
    /\ last.op = "get_voices_cached"
    /\ last.pre # NONE
    /\ clock - last.pre[1].at = VOICE_CACHE_TTL_SECONDS - 1
    /\ last.fetches = 0
    /\ ~last.resp.raised /\ last.resp.value # ret.value

\* C12: an "unknown" quota answer (the provider's response has no usable
\* quota fields, or the quota feature is disabled) is cached like an
\* integer: every further call less than 300 seconds after it returns
\* unknown without asking the quota provider.
C12_UnknownIsCached ==
    ( /\ last.op = "check_quota"
      /\ last.prevUnknown # Never
      /\ clock - last.prevUnknown < QUOTA_CACHE_TTL ) =>
        /\ ret.value = NONE
        /\ last.fetches = 0

\* The refresh of the catalog call that just returned failed: get_all_voices
\* was called and raised, the provider's error or the missing-key error.
CatalogRefreshFailed ==
    /\ last.op = "get_voices_cached"
    /\ last.fetches = 1
    /\ (last.resp.raised \/ ~config.elevenlabs_api_key)

\* The error get_all_voices raised in the call that just returned.
CatalogError ==
    IF ~config.elevenlabs_api_key THEN "RuntimeError" ELSE last.resp.value

C14_FailedRefreshLeavesEntry ==
    /\ last.op = "get_voices_cached" =>
          /\ CatalogRefreshFailed => voicesCache = last.pre
          /\ voicesCache # last.pre =>
                /\ last.fetches = 1 /\ ~ret.raised
                /\ voicesCache = Some([at |-> clock, value |-> last.resp.value])
          /\ last.fetches <= 1
    /\ last.op = "check_quota" =>
          /\ last.kind \in {"raised", "status"} => quotaCache = last.pre
          /\ quotaCache # last.pre =>
                /\ last.kind = "integer" /\ last.fetches = 1
                /\ quotaCache = Some([at |-> clock, value |-> ret.value])
          /\ last.fetches <= 1

\* The refresh of an expired catalog entry failed and the entry is still
\* there, while the quota cache holds an entry of its own.
C14_Witness ==
    /\ CatalogRefreshFailed
    /\ last.pre # NONE
    /\ voicesCache = last.pre
    /\ quotaCache # NONE

\* --------------------------------------------------- catalog indexer claims
\* The identifiers of the voices of VoicePool, and those of them whose
\* gender label (labels["gender"], else the gender attribute) contains
\* "female" in some casing: female, Female, and FEMALE-free labels such as
\* male, neutral and the empty label are not among them.
PoolIds == {"1", "2", "3", "4", "5", "6"}
FemaleIds == {"1", "4", "5"}

\* The positions of the records of a catalog that carry identifier x, and
\* the positions of the entries of a bucket for x.
RecordsOf(voices, x) ==
    {i \in 1..Len(voices) : voices[i].voice_id = Some(x)}
EntriesOf(bucket, x) == {i \in 1..Len(bucket) : bucket[i][2] = x}
Identified(voices) ==
    {x \in PoolIds : RecordsOf(voices, x) # {}}

\* C15: the indexer loses no identified voice.  Every record with a
\* non-empty identifier has its (name, id) entry in exactly one bucket, the
\* female bucket if and only if its gender label contains "female" in any
\* casing and the male bucket otherwise; a record without identifier is in
\* no bucket and in no reverse map.
C15_EveryIdentifiedVoiceInOneBucket ==
    last.op = "index" =>
        LET voices == last.voices
            male == category_to_voices.male
            female == category_to_voices.female
        IN  /\ \A x \in PoolIds :
                  LET n == Cardinality(RecordsOf(voices, x))
                      own == IF x \in FemaleIds THEN female ELSE male
                      other == IF x \in FemaleIds THEN male ELSE female
                  IN  /\ Cardinality(EntriesOf(own, x)) = n
                      /\ EntriesOf(other, x) = {}
                      /\ \A i \in EntriesOf(own, x) :
                            \E j \in RecordsOf(voices, x) :
                                own[i] = <<voices[j].name, x>>
                      /\ \A j \in RecordsOf(voices, x) :
                            (x \in FemaleIds) <=>
                                Contains(s_female, Lower(GenderOf(voices[j])))
            /\ \A i \in 1..Len(male) : male[i][2] \in Identified(voices)
            /\ \A i \in 1..Len(female) : female[i][2] \in Identified(voices)
            /\ DOMAIN voice_id_to_name = Identified(voices)
            /\ DOMAIN voice_id_to_lang = Identified(voices)

\* A catalog with a voice without identifier, a voice labelled Female and
\* a voice of unknown gender has been indexed.
C15_Witness ==
    /\ last.op = "index"
    /\ \E i \in 1..Len(last.voices) : last.voices[i].voice_id = NONE
    /\ category_to_voices.female = << <<s_Zoe, "4">> >>
    /\ category_to_voices.male = << <<s_Lev, "6">> >>

\* What the claim expects of the voices of VoicePool: the language
\* priority (0 for ru, RU and the Cyrillic label, 1 for multi and
\* Multilingual, 2 for en) and the rank of the name in
\* alphabetical order without regard to case (anna, Ben, Eve, Ivan, Lev, Zoe).
PriorityOfId ==
    [x \in PoolIds |-> CASE x \in {"1", "4", "6"} -> 0
                        [] x \in {"2", "5"} -> 1
                        [] OTHER -> 2]
NameRankOfId ==
    [x \in PoolIds |-> CASE x = "1" -> 1
                        [] x = "3" -> 2
                        [] x = "5" -> 3
                        [] x = "2" -> 4
                        [] x = "6" -> 5
                        [] OTHER -> 6]
InOrder(x, y) ==
    \/ PriorityOfId[x] < PriorityOfId[y]
    \/ PriorityOfId[x] = PriorityOfId[y] /\ NameRankOfId[x] <= NameRankOfId[y]
Ascending(bucket) ==
    \A i, j \in 1..Len(bucket) : i < j => InOrder(bucket[i][2], bucket[j][2])

\* C16: within each bucket the entries are in ascending order of
\* (languagePriority(language), lower-case name), where the priority is 0
\* for the Russian labels, 1 for a label that contains "multi" and 2
\* otherwise: a multilingual voice precedes an English one, and of two
\* Russian voices "anna" precedes "Zoe".
C16_BucketsSortedByLanguageThenName ==
    last.op = "index" =>
        /\ Ascending(category_to_voices.male)
        /\ Ascending(category_to_voices.female)
        /\ \A i \in 1..Len(last.voices) :
              HasId(last.voices[i]) =>
                  lang_priority(LanguageOf(last.voices[i])) =
                      PriorityOfId[last.voices[i].voice_id[1]]

\* The catalog listed Zoe before anna and the English voice before the
\* multilingual one; the index has them the other way round.
C16_Witness ==
    /\ last.op = "index"
    /\ Len(last.voices) = MaxCatalogLen
    /\ last.voices[1].voice_id = Some("4")
    /\ last.voices[2].voice_id = Some("3")
    /\ category_to_voices.female = << <<s_anna, "1">>, <<s_Zoe, "4">> >>
    /\ category_to_voices.male = << <<s_Ivan, "2">>, <<s_Ben, "3">> >>

\* The identifiers in a bucket.
IdsIn(bucket) == {bucket[i][2] : i \in 1..Len(bucket)}

\* C17: the catalog index is rebuilt in full on every refresh: the buckets
\* and the reverse maps id -> name and id -> language hold exactly the
\* identified voices of the catalog fetched last, so an identifier that
\* the latest catalog lacks is in no bucket and in no reverse map.
C17_IndexHoldsLatestCatalogOnly ==
    voicesCache # NONE =>
        LET latest == Identified(voicesCache[1].value)
        IN  /\ IdsIn(category_to_voices.male)
                  \cup IdsIn(category_to_voices.female) = latest
            /\ DOMAIN voice_id_to_name = latest
            /\ DOMAIN voice_id_to_lang = latest

\* ------------------------------------------------------------ handler claims
\* The handlers of inbound events: /start, the callback queries, text.
EventOps ==
    {"start", "cat", "voice", "settings", "back_to_menu", "ssml", "fmt",
     "text"}

\* C18 as stated: every inbound event is first checked by the rate
\* limiter, and only an admitted event reads or writes the store or
\* consults a cache.
C18_EveryEventRateLimited ==
    last.op \in EventOps =>
        /\ last.checked
        /\ (last.store \/ last.cache) => last.admitted

\* C18, amended: of the inbound events only text messages are checked by
\* the rate limiter.  A text message with a sender that is no bot is
\* checked before anything else, and reads the store or consults the quota
\* cache only if it was admitted; a text message without such a sender is
\* dropped unchecked and touches nothing.  /start and the callback queries
\* are never checked: they use the store and the catalog cache directly.
C18_OnlyTextMessagesRateLimited ==
    /\ last.op = "text" =>
          /\ last.checked <=> last.user # "-"
          /\ (last.store \/ last.cache) => (last.checked /\ last.admitted)
    /\ last.op \in EventOps \ {"text"} => ~last.checked

\* A text message was rejected by the limiter: the reply is the only effect.
C18_Witness ==
    /\ last.op = "text"
    /\ last.checked /\ ~last.admitted
    /\ ~last.store /\ ~last.cache
    /\ ret = <<"reply:rate_limited">>
    /\ Len(RequestsOf(requests, last.user)) = max_requests

\* C19 as stated: a missing required credential (bot token, provider API
\* key) raises a configuration error at construction and never at first
\* use; with the provider key unset the failure occurs before any event is
\* handled.
C19_MissingCredentialFailsAtConstruction ==
    /\ (phase # "import" /\ ~(config.bot_token /\ config.elevenlabs_api_key))
          => phase = "failed"
    /\ last.op \in EventOps => ~last.config_error

\* C19, amended: a missing bot token raises at construction, before any
\* event is handled.  A missing provider API key does not: the bot starts,
\* and the error is raised at the first use of the provider client, inside
\* the handler of /start or of a text message, which answers with an error
\* reply; every /start then fails this way.
C19_TokenEagerProviderKeyAtFirstUse ==
    /\ phase # "import" => (phase = "failed" <=> ~config.bot_token)
    /\ phase = "failed" => last.op = "import" /\ ret.raised
    /\ last.op \in EventOps =>
          /\ config.bot_token
          /\ last.config_error =>
                ~config.elevenlabs_api_key /\ last.op \in {"start", "text"}
    /\ (last.op = "start" /\ ~config.elevenlabs_api_key) =>
          /\ last.config_error
          /\ ret = <<"reply:voices_failed">>
          /\ client = NONE /\ voicesCache = NONE

\* With the provider key unset the bot is polling and a text message ran
\* into the missing key when it asked for the audio.
C19_Witness ==
    /\ phase = "polling"
    /\ ~config.elevenlabs_api_key
    /\ last.op = "text"
    /\ last.config_error
    /\ ret = <<"reply:generate_failed">>

\* ---------------------------------------------------------- concurrency claim
\* C20: the per-key mutation of the limiter is atomic with respect to
\* concurrent checks of the same key: when two is_allowed calls for the
\* same user interleave statement by statement (prune, test, append), no
\* admitted timestamp is lost, and the admitted calls inside a window
\* never exceed max_requests.
C20_InterleavedChecksKeepTheLimit ==
    \A u \in Users :
        /\ \A a \in 0..clock :
              AdmittedIn(u, a, a + window - 1) <= max_requests
        /\ \A i \in DOMAIN hAdmitted[u] :
              hAdmitted[u][i] > clock - window =>
                  Count(RequestsOf(requests, u), hAdmitted[u][i]) =
                      Count(hAdmitted[u], hAdmitted[u][i])

\* ------------------------------------------------------ preprocessing claims
\* The rewriter could not rewrite: no key, no prompt for the style, an
\* exception of OpenAI(...) or of the request, no choices, or a content
\* that is None or empty.
RewriterGaveNothing(style, env) ==
    \/ ~Truthy(env.env_key) /\ ~Truthy(env.cfg_key)
    \/ LoadPrompt(style, env.prompts) = <<>>
    \/ env.ctor_raises
    \/ env.create.kind \in {"raise", "no_choices"}
    \/ env.create.content = NONE
    \/ env.create.content = Some(<<>>)

\* C21: preprocess_text_if_needed never raises to its caller; with the mode
\* off it returns the text unchanged and does not call the rewriter; with
\* another mode it returns the text unchanged whenever the rewriter raises,
\* has no key or no prompt, or answers with an empty content.
C21_PreprocessingNeverFails ==
    last.op = "prep" =>
        /\ ~ret.raised
        /\ last.mode = "off" => ret.value = last.text /\ ~last.called
        /\ (last.mode # "off"
              /\ RewriterGaveNothing(StyleOf(last.mode), last.env))
             => ret.value = last.text

\* A mode other than off is stored and OpenAI(...) raises, outside the try
\* block of prepare_for_tts; the caller still gets the text.
C21_Witness ==
    /\ last.op = "prep"
    /\ last.mode = "announcer"
    /\ last.called
    /\ Truthy(last.env.env_key)
    /\ last.env.prompts # NONE
    /\ last.env.prompts[1].announcer # <<>>
    /\ last.env.ctor_raises
    /\ ret = [raised |-> FALSE, value |-> last.text]

\* ------------------------------------------------- UserDataStore structure
\* C22: every user with a record in _data has an entry in _last_access, so
\* cleanup sees every record; and a get for a user without a record leaves
\* the user with an access time and still without a record.
C22_EveryRecordHasAccessTime ==
    /\ [](DOMAIN data \subseteq DOMAIN lastAccess)
    /\ [][(last'.op = "get" /\ last'.user \notin DOMAIN data)
            => /\ last'.user \in DOMAIN lastAccess'
               /\ last'.user \notin DOMAIN data']_vars

\* A get by a user without a record returned while another user has one.
C22_Witness ==
    /\ last.op = "get"
    /\ last.user \in DOMAIN lastAccess
    /\ last.user \notin DOMAIN data
    /\ DOMAIN data # {}

\* ----------------------------------------------------------- frame of set
\* What a map holds for a user, and a record for a key: <<x>> or <<>>.
EntryOf(f, w) == IF w \in DOMAIN f THEN <<f[w]>> ELSE <<>>
KeyOf(d, w, k) ==
    IF w \in DOMAIN d /\ k \in DOMAIN d[w] THEN <<d[w][k]>> ELSE <<>>

\* The step is a call of set.
SetStep == last'.op = "set"

\* The call stores its value and stamps the caller.
SetWrites ==
    /\ KeyOf(data', last'.user, last'.key) = <<last'.arg>>
    /\ EntryOf(lastAccess', last'.user) = <<clock>>

\* The record and the access time of every other user that is not expired
\* at the time of the call are as before.
OtherLiveUsersUnchanged ==
    \A w \in Users \ {last'.user} :
        w \notin Expired(lastAccess, clock, ttl) =>
            /\ EntryOf(data', w) = EntryOf(data, w)
            /\ EntryOf(lastAccess', w) = EntryOf(lastAccess, w)

\* Every other key of the caller is as before.
OtherKeysUnchanged ==
    \A k \in Keys \ {last'.key} :
        KeyOf(data', last'.user, k) = KeyOf(data, last'.user, k)

\* C23 as stated: set(u, k, v) changes only key k of u and u's lastAccess;
\* every other key of u, and the record and lastAccess of every other user
\* not expired at the time of the call, are unchanged.
C23_SetChangesOnlyItsKey ==
    [][SetStep => SetWrites /\ OtherKeysUnchanged
                    /\ OtherLiveUsersUnchanged]_vars

\* C23, amended: the other keys of u are unchanged when u itself is not
\* expired at the time of the call; an expired caller's record is evicted
\* by the cleanup first and holds only k afterwards.
C23_SetFrameForLiveUsers ==
    [][SetStep =>
         /\ SetWrites
         /\ OtherLiveUsersUnchanged
         /\ IF last'.user \in Expired(lastAccess, clock, ttl)
            THEN \A k \in Keys \ {last'.key} :
                     KeyOf(data', last'.user, k) = <<>>
            ELSE OtherKeysUnchanged]_vars

\* A set returned for a caller who keeps another key, while another user
\* keeps a record: neither was expired at the time of the call.
C23_Witness ==
    /\ last.op = "set"
    /\ \E k \in Keys \ {last.key} : KeyOf(data, last.user, k) # <<>>
    /\ \E w \in Users \ {last.user} : w \in DOMAIN data

\* ---------------------------------------------------- generate_voice claims
\* The step handles a text message of a user who is not a bot.
TextStep == last'.op = "text" /\ last'.sender # NONE /\ ~last'.is_bot

\* The limiter, asked now for the sender of the message, finds the user's
\* list full.
LimiterFull(u) ==
    OverLimit(Prune(RequestsOf(requests, u), clock, window), max_requests)

\* C24: a text message the limiter rejects is answered and does nothing
\* else: the store, the two caches and the client are as before, no quota
\* is looked up and no audio generated.  The user's lastAccess is therefore
\* not refreshed, and an admitted message that comes more than ttl seconds
\* after it finds the user's preferences evicted.
C24_RejectedMessageLeavesSession ==
    [][TextStep =>
         /\ LimiterFull(last'.sender[1]) =>
               /\ UNCHANGED <<data, lastAccess, quotaCache, voicesCache,
                              client>>
               /\ ~last'.looked_up
               /\ last'.calls = <<>>
               /\ ret' = <<"reply:rate_limited">>
         /\ (~LimiterFull(last'.sender[1])
               /\ last'.sender[1] \in Expired(lastAccess, clock, ttl)) =>
               /\ last'.sender[1] \notin DOMAIN data'
               /\ ret' = <<"reply:choose_voice">>]_vars

\* A message was rejected while the sender has a chosen voice in the store
\* and the last access is more than ttl seconds ago: the messages since
\* then did not refresh it.
C24_Witness ==
    /\ last.op = "text"
    /\ last.checked /\ ~last.admitted
    /\ ret = <<"reply:rate_limited">>
    /\ KeyOf(data, last.user, "voice_id") # <<>>
    /\ clock - lastAccess[last.user] > ttl

\* The gates of generate_voice, each told from the message, from the state
\* before the step, or from what the quota lookup was seen to answer.
FromUser == last'.sender # NONE /\ ~last'.is_bot
Admitted == ~LimiterFull(last'.sender[1])
VoiceChosen ==
    /\ last'.sender[1] \notin Expired(lastAccess, clock, ttl)
    /\ KeyOf(data, last'.sender[1], "voice_id") # <<>>
ShortEnough == TextLen[last'.text] <= MAX_TTS_CHARS
QuotaSuffices ==
    /\ last'.looked_up
    /\ \/ last'.remaining = NONE
       \/ last'.remaining[1] >= TextLen[last'.processed]
GatesPassed ==
    FromUser /\ Admitted /\ VoiceChosen /\ ShortEnough /\ QuotaSuffices

\* C25: generate_audio is called only for a message that passed every gate:
\* a sender who is not a bot, admitted by the limiter, with a voice_id in
\* the store, a text of at most MAX_TTS_CHARS, and a quota lookup that
\* answered unknown or at least the length of the processed text.  The
\* gates come in this order: a message failing one is not taken to the
\* later ones.
C25_AudioOnlyAfterAllGates ==
    [][last'.op = "text" =>
         /\ last'.calls # <<>> => GatesPassed
         /\ ~FromUser =>
               /\ UNCHANGED <<requests, data, lastAccess, quotaCache>>
               /\ ret' = <<>>
         /\ (FromUser /\ ~Admitted) =>
               /\ UNCHANGED <<data, lastAccess, quotaCache>>
               /\ ret' = <<"reply:rate_limited">>
         /\ (FromUser /\ Admitted /\ ~VoiceChosen) =>
               /\ ~last'.looked_up /\ last'.processed = "-"
               /\ UNCHANGED quotaCache
               /\ ret' = <<"reply:choose_voice">>
         /\ (FromUser /\ Admitted /\ VoiceChosen /\ ~ShortEnough) =>
               /\ ~last'.looked_up /\ last'.processed = "-"
               /\ UNCHANGED quotaCache
               /\ ret' = <<"reply:too_long">>
         /\ (FromUser /\ Admitted /\ VoiceChosen /\ ShortEnough
               /\ ~QuotaSuffices) =>
               /\ last'.looked_up
               /\ ret' = <<"reply:quota">>]_vars

\* Both formats were generated for a text of one character after the quota
\* lookup answered that one character is left.
C25_Witness ==
    /\ last.op = "text"
    /\ last.calls = <<"opus", "mp3">>
    /\ last.looked_up
    /\ last.remaining = Some(1)
    /\ last.processed = "text"

\* The format stored for the sender before the step: <<fmt>> or <<>>.
StoredFormat == KeyOf(data, last'.sender[1], "resp_format")

\* C26: for a message that passed the gates the stored format decides the
\* generate_audio calls: ogg gives one opus call and no mp3 call, mp3 one
\* mp3 call and no opus call, both (and no stored format) the opus call
\* followed by the mp3 call; when the opus request or the send of its
\* result fails, the mp3 call is not made.
C26_FormatDecidesGenerations ==
    [][(last'.op = "text" /\ GatesPassed) =>
         /\ StoredFormat = <<"ogg">> => last'.calls = <<"opus">>
         /\ StoredFormat = <<"mp3">> => last'.calls = <<"mp3">>
         /\ StoredFormat \in {<<"both">>, <<>>} =>
               /\ last'.audio[1] = "ok" => last'.calls = <<"opus", "mp3">>
               /\ last'.audio[1] # "ok" => last'.calls = <<"opus">>]_vars

\* With both formats stored the send of the opus result failed, and only
\* the opus call was made.
C26_Witness ==
    /\ last.op = "text"
    /\ KeyOf(data, last.user, "resp_format") = <<"both">>
    /\ last.calls = <<"opus">>
    /\ last.audio[1] = "send_error"
    /\ ret = <<"reply:generate_failed">>

\* ----------------------------------------------------------- format claims
\* The formats of BotConfig.
KnownFormats == {"ogg", "mp3", "both"}

\* C27: a format callback with a format that is none of ogg, mp3, both is
\* answered and leaves the store as it is: nothing written, no lastAccess
\* refreshed, nobody evicted; so every stored resp_format is one of ogg,
\* mp3, both.
C27_UnknownFormatNeverStored ==
    /\ [](\A u \in DOMAIN data :
             "resp_format" \in DOMAIN data[u] =>
                 data[u]["resp_format"] \in KnownFormats)
    /\ [][(last'.op = "fmt" /\ last'.fmt \notin KnownFormats) =>
             /\ UNCHANGED <<data, lastAccess>>
             /\ ret' = <<"answer:unknown_format">>]_vars

\* An unknown format was answered while the user's record is in the store
\* and the last access is more than ttl seconds ago: no cleanup ran.
C27_Witness ==
    /\ last.op = "fmt"
    /\ last.fmt = "wav"
    /\ KeyOf(data, last.user, "resp_format") \in {<<"ogg">>, <<"mp3">>,
                                                  <<"both">>}
    /\ clock - lastAccess[last.user] > ttl

====
